---- MODULE Spec2Model ----
(***************************************************************************)
(* PortSlayer: the port scanner (ss + /proc/net merge), its parsers, and   *)
(* the process terminator, as a state machine.                             *)
(*                                                                         *)
(* Text is modelled as a sequence of one-character strings, so that the    *)
(* parsers work on characters exactly as the Rust code does.  Offsets are  *)
(* 0-based as in Rust; Slice(s, a, b) is s[a..b].  An Option is a sequence *)
(* of length 0 (None) or 1 (Some).                                         *)
(***************************************************************************)
EXTENDS Integers, Sequences, FiniteSets, TLC

\* ------------------------------------------------------------------------
\* Option and text helpers (Rust std behaviour used by port_scanner.rs)
\* ------------------------------------------------------------------------

None == <<>>

Some(x) == <<x>>

IsSome(o) == Len(o) = 1

Unwrap(o) == o[1]

Min(a, b) == IF a <= b THEN a ELSE b

\* s[a..b]
Slice(s, a, b) == SubSeq(s, a + 1, b)

\* s[a..]
SliceFrom(s, a) == SubSeq(s, a + 1, Len(s))

DecChars == <<"0", "1", "2", "3", "4", "5", "6", "7", "8", "9">>

HexUpper == <<"0", "1", "2", "3", "4", "5", "6", "7", "8", "9", "A", "B", "C", "D", "E", "F">>

HexLower == <<"0", "1", "2", "3", "4", "5", "6", "7", "8", "9", "a", "b", "c", "d", "e", "f">>

IsHexDigit(c) == \E i \in 1..16 : HexUpper[i] = c \/ HexLower[i] = c

\* char::to_digit(radix), for a character that is a digit of the radix
DigitValue(c) == (CHOOSE i \in 1..16 : HexUpper[i] = c \/ HexLower[i] = c) - 1

IsDigitOf(c, radix) == IsHexDigit(c) /\ DigitValue(c) < radix

\* str::starts_with(pat)
StartsWith(s, pat) == Len(s) >= Len(pat) /\ SubSeq(s, 1, Len(pat)) = pat

\* str::ends_with(pat)
EndsWith(s, pat) == Len(s) >= Len(pat) /\ SubSeq(s, Len(s) - Len(pat) + 1, Len(s)) = pat

RECURSIVE FirstIn(_, _, _)
\* the first position >= from of s that holds a character of Chars, Len(s) + 1
\* when there is none (positions count from 1)
FirstIn(s, from, Chars) ==
    IF from > Len(s) \/ s[from] \in Chars THEN from ELSE FirstIn(s, from + 1, Chars)

RECURSIVE FirstNotIn(_, _, _)
\* the first position >= from of s that holds no character of Chars
FirstNotIn(s, from, Chars) ==
    IF from > Len(s) \/ s[from] \notin Chars THEN from ELSE FirstNotIn(s, from + 1, Chars)

RECURSIVE LastNotIn(_, _, _)
\* the last position <= upto of s that holds no character of Chars, 0 when none
LastNotIn(s, upto, Chars) ==
    IF upto = 0 \/ s[upto] \notin Chars THEN upto ELSE LastNotIn(s, upto - 1, Chars)

RECURSIVE FindFrom(_, _, _)
\* the first offset >= i at which pat occurs in s
FindFrom(s, pat, i) ==
    IF i + Len(pat) > Len(s) THEN None
    ELSE IF Slice(s, i, i + Len(pat)) = pat THEN Some(i)
    ELSE FindFrom(s, pat, i + 1)

RECURSIVE RFindFrom(_, _, _)
\* the last offset <= i at which pat occurs in s
RFindFrom(s, pat, i) ==
    IF i < 0 THEN None
    ELSE IF Slice(s, i, i + Len(pat)) = pat THEN Some(i)
    ELSE RFindFrom(s, pat, i - 1)

\* str::find(pat): Some(first offset) or None
Find(s, pat) == FindFrom(s, pat, 0)

\* str::rfind(pat): Some(last offset) or None
RFind(s, pat) == RFindFrom(s, pat, Len(s) - Len(pat))

\* str::contains(pat)
Contains(s, pat) == IsSome(Find(s, pat))

Whitespace == {" ", "\t", "\n", "\r"}

AsciiDigits == {"0", "1", "2", "3", "4", "5", "6", "7", "8", "9"}

\* str::find(|c| !c.is_ascii_digit())
FindNonDigit(s) ==
    LET at == FirstNotIn(s, 1, AsciiDigits)
    IN  IF at > Len(s) THEN None ELSE Some(at - 1)

\* str::trim(): leading and trailing whitespace removed
Trim(s) == SubSeq(s, FirstNotIn(s, 1, Whitespace), LastNotIn(s, Len(s), Whitespace))

\* str::trim_start_matches(c): every leading c removed
TrimStartMatches(s, c) == SubSeq(s, FirstNotIn(s, 1, {c}), Len(s))

\* str::trim_end_matches(c): every trailing c removed
TrimEndMatches(s, c) == SubSeq(s, 1, LastNotIn(s, Len(s), {c}))

RECURSIVE SplitFrom(_, _, _)
\* the pieces of s from position from on, between the occurrences of c
SplitFrom(s, c, from) ==
    LET at == FirstIn(s, from, {c})
    IN  IF at > Len(s) THEN <<SubSeq(s, from, Len(s))>>
        ELSE <<SubSeq(s, from, at - 1)>> \o SplitFrom(s, c, at + 1)

\* str::split(c): the pieces between the occurrences of the character c
Split(s, c) == SplitFrom(s, c, 1)

\* str::lines(): split at "\n", a final empty piece dropped, and one "\r"
\* before a "\n" dropped (a "\r" ending the last, unterminated line stays)
Lines(s) ==
    LET pieces == Split(s, "\n")
        n == Len(pieces)
        strip(i) == IF i < n /\ EndsWith(pieces[i], <<"\r">>)
                    THEN Slice(pieces[i], 0, Len(pieces[i]) - 1)
                    ELSE pieces[i]
        all == [i \in 1..n |-> strip(i)]
    IN  IF pieces[n] = <<>> THEN SubSeq(all, 1, n - 1) ELSE all

RECURSIVE SplitWhitespaceFrom(_, _)
SplitWhitespaceFrom(s, from) ==
    LET b == FirstNotIn(s, from, Whitespace)
        e == FirstIn(s, b, Whitespace)
    IN  IF b > Len(s) THEN <<>>
        ELSE <<SubSeq(s, b, e - 1)>> \o SplitWhitespaceFrom(s, e)

\* str::split_whitespace(): the maximal runs of non-whitespace characters
SplitWhitespace(s) == SplitWhitespaceFrom(s, 1)

RECURSIVE Join(_, _)
\* [String]::join(sep)
Join(ss, sep) ==
    IF ss = <<>> THEN <<>>
    ELSE IF Len(ss) = 1 THEN ss[1]
    ELSE ss[1] \o sep \o Join(Tail(ss), sep)

\* An unsigned integer is kept in 16-bit limbs (most significant first) while
\* it is parsed, so that the overflow test of a 16, 32 or 64-bit parse is exact.
Limb == 256 * 256

RECURSIVE MulAdd(_, _, _)
\* limbs * radix + carry, as <<carry out, limbs>>
MulAdd(limbs, radix, carry) ==
    IF limbs = <<>> THEN <<carry, <<>>>>
    ELSE LET low == MulAdd(Tail(limbs), radix, carry)
             v == limbs[1] * radix + low[1]
         IN  <<v \div Limb, <<v % Limb>> \o low[2]>>

RECURSIVE ParseDigits(_, _, _)
\* the digits of s accumulated in the radix onto the limbs acc; None on a
\* character that is no digit of the radix and on overflow of the limbs
ParseDigits(s, radix, acc) ==
    IF s = <<>> THEN Some(acc)
    ELSE IF ~IsDigitOf(s[1], radix) THEN None
    ELSE LET r == MulAdd(acc, radix, DigitValue(s[1]))
         IN  IF r[1] > 0 THEN None ELSE ParseDigits(Tail(s), radix, r[2])

\* uN::from_str_radix(s, radix), N = 16 * limbs: an optional leading "+", then
\* at least one digit; None (Err) otherwise and on overflow
ParseUnsigned(s, radix, limbs) ==
    LET body == IF Len(s) > 1 /\ s[1] = "+" THEN Tail(s) ELSE s
    IN  IF body = <<>> THEN None
        ELSE ParseDigits(body, radix, [i \in 1..limbs |-> 0])

RECURSIVE ValueOf(_)
\* the integer the limbs stand for
ValueOf(limbs) ==
    IF limbs = <<>> THEN 0
    ELSE ValueOf(SubSeq(limbs, 1, Len(limbs) - 1)) * Limb + limbs[Len(limbs)]

\* uN::from_str_radix as an integer
ParseInt(s, radix, limbs) ==
    LET r == ParseUnsigned(s, radix, limbs)
    IN  IF IsSome(r) THEN Some(ValueOf(Unwrap(r))) ELSE None

\* str::parse::<u16>()
ParseU16(s) == ParseInt(s, 10, 1)

\* str::parse::<u32>()
ParseU32(s) == ParseInt(s, 10, 2)

\* str::parse::<u64>()
ParseU64(s) == ParseInt(s, 10, 4)

RECURSIVE ToDecimal(_)
\* integer Display: the decimal digits of n >= 0
ToDecimal(n) ==
    IF n < 10 THEN <<DecChars[n + 1]>>
    ELSE ToDecimal(n \div 10) \o <<DecChars[(n % 10) + 1]>>

\* ------------------------------------------------------------------------
\* Source 1: the output of `ss` (port_scanner.rs, parse_ss_output)
\* ------------------------------------------------------------------------

\* "desconocido"
Desconocido == <<"d", "e", "s", "c", "o", "n", "o", "c", "i", "d", "o">>

PortInfo(protocol, port, local_address, pid, process_name) ==
    [protocol |-> protocol, port |-> port, local_address |-> local_address,
     pid |-> pid, process_name |-> process_name]

clean_address(addr) ==
    LET cleaned == TrimEndMatches(TrimStartMatches(addr, "["), "]")
        pos == Find(cleaned, <<"%">>)
    IN  IF IsSome(pos) THEN Slice(cleaned, 0, Unwrap(pos))
        ELSE IF cleaned = <<"*">> THEN <<"0", ".", "0", ".", "0", ".", "0">>
        ELSE cleaned

\* every field taken for an address
IsAddressField_Any(part) == TRUE

\* the test of one whitespace-separated field: does it look like an address
IsAddressField(part) ==
    \/ Contains(part, <<".">>)
    \/ Contains(part, <<"[">>)
    \/ Contains(part, <<":", ":">>)
    \/ StartsWith(part, <<"*">>)

\* the body of the loop over the fields: Some(<<address, port>>) when the
\* field yields the result, None when the loop goes on to the next field
\* AddressAndPortOf without the `port > 0` test
AddressAndPortOf_AnyPort(part) ==
    IF ~IsAddressField(part) THEN None
    ELSE LET colon_pos == RFind(part, <<":">>)
         IN  IF ~IsSome(colon_pos) THEN None
             ELSE LET addr_part == Slice(part, 0, Unwrap(colon_pos))
                      port_str == SliceFrom(part, Unwrap(colon_pos) + 1)
                      port == ParseU16(port_str)
                  IN  IF port_str = <<"*">> THEN None
                      ELSE IF IsSome(port)
                           THEN Some(<<clean_address(addr_part), Unwrap(port)>>)
                      ELSE None

AddressAndPortOf(part) ==
    IF ~IsAddressField(part) THEN None
    ELSE LET colon_pos == RFind(part, <<":">>)
         IN  IF ~IsSome(colon_pos) THEN None
             ELSE LET addr_part == Slice(part, 0, Unwrap(colon_pos))
                      port_str == SliceFrom(part, Unwrap(colon_pos) + 1)
                      port == ParseU16(port_str)
                  IN  IF port_str = <<"*">> THEN None
                      ELSE IF IsSome(port) /\ Unwrap(port) > 0
                           THEN Some(<<clean_address(addr_part), Unwrap(port)>>)
                      ELSE None

RECURSIVE FirstAddressAndPort(_)
FirstAddressAndPort(parts) ==
    IF parts = <<>> THEN None
    ELSE LET r == AddressAndPortOf(parts[1])
         IN  IF IsSome(r) THEN r ELSE FirstAddressAndPort(Tail(parts))

extract_address_and_port(line) == FirstAddressAndPort(SplitWhitespace(line))

\* users:((
UsersMarker == <<"u", "s", "e", "r", "s", ":", "(", "(">>

\* pid=
PidMarker == <<"p", "i", "d", "=">>

extract_process_info(line) ==
    LET users_start == Find(line, UsersMarker)
    IN  IF ~IsSome(users_start) THEN None
        ELSE
        LET users_section == SliceFrom(line, Unwrap(users_start))
            open == Find(users_section, <<"(", "(", "\"">>)
        IN  IF ~IsSome(open) THEN None
            ELSE
            LET name_start == Unwrap(open) + 3
                close == Find(SliceFrom(users_section, name_start), <<"\"">>)
            IN  IF ~IsSome(close) THEN None
                ELSE
                LET name_end == Unwrap(close) + name_start
                    process_name == Slice(users_section, name_start, name_end)
                    marker == Find(users_section, PidMarker)
                IN  IF ~IsSome(marker) THEN None
                    ELSE
                    LET pid_start == Unwrap(marker) + Len(PidMarker)
                        stop == FindNonDigit(SliceFrom(users_section, pid_start))
                        pid_end == IF IsSome(stop) THEN Unwrap(stop) + pid_start
                                   ELSE Len(users_section)
                        pid == ParseU32(Slice(users_section, pid_start, pid_end))
                    IN  IF ~IsSome(pid) THEN None
                        ELSE Some(<<Unwrap(pid), process_name>>)

parse_single_ss_line(raw_line, protocol) ==
    LET line == Trim(raw_line)
    IN  IF line = <<>> THEN None
        ELSE LET ap == extract_address_and_port(line)
                 info == extract_process_info(line)
                 owner == IF IsSome(info) THEN Unwrap(info) ELSE <<0, Desconocido>>
             IN  IF ~IsSome(ap) THEN None
                 ELSE Some(PortInfo(protocol, Unwrap(ap)[2], Unwrap(ap)[1],
                                    owner[1], owner[2]))

RECURSIVE FilterMapSs(_, _)
FilterMapSs(lines, protocol) ==
    IF lines = <<>> THEN <<>>
    ELSE parse_single_ss_line(lines[1], protocol) \o FilterMapSs(Tail(lines), protocol)

parse_ss_output(output, protocol) == FilterMapSs(Lines(output), protocol)

\* ------------------------------------------------------------------------
\* Source 2: /proc/net/{tcp,tcp6,udp,udp6} and the inode -> process map
\* ------------------------------------------------------------------------

\* the injective sequences that list a finite set
Orders(S) ==
    {f \in [1..Cardinality(S) -> S] : \A i, j \in 1..Cardinality(S) : f[i] = f[j] => i = j}

\* 32 zeros
Ipv6Any == [i \in 1..32 |-> "0"]

\* 00000000000000000000000001000000
Ipv6Loopback == [i \in 1..32 |-> IF i = 26 THEN "1" ELSE "0"]

parse_hex_address(hex_addr) ==
    LET parts == Split(hex_addr, ":")
    IN  IF Len(parts) # 2 THEN None
        ELSE
        LET port == ParseInt(parts[2], 16, 1)
            addr_hex == parts[1]
            ip == ParseUnsigned(addr_hex, 16, 2)
            hi == Unwrap(ip)[1]
            lo == Unwrap(ip)[2]
            dot == <<".">>
        IN  IF ~IsSome(port) THEN None
            ELSE IF Len(addr_hex) = 8
                 THEN IF ~IsSome(ip) THEN None
                      ELSE Some(<<ToDecimal(lo % 256) \o dot \o ToDecimal(lo \div 256) \o dot
                                  \o ToDecimal(hi % 256) \o dot \o ToDecimal(hi \div 256),
                                  Unwrap(port)>>)
            ELSE IF Len(addr_hex) = 32
                 THEN IF addr_hex = Ipv6Any
                      THEN Some(<<<<"[", ":", ":", "]">>, Unwrap(port)>>)
                      ELSE IF addr_hex = Ipv6Loopback
                      THEN Some(<<<<"[", ":", ":", "1", "]">>, Unwrap(port)>>)
                      ELSE Some(<<<<"[">> \o Slice(addr_hex, 0, 4) \o <<".", ".", ".">>
                                  \o SliceFrom(addr_hex, 28) \o <<"]">>, Unwrap(port)>>)
            ELSE None

\* inode_to_pid is a function from inodes to <<pid, process name>>
parse_proc_net_line(line, protocol, inode_to_pid) ==
    LET parts == SplitWhitespace(line)
    IN  IF Len(parts) < 10 THEN None
        ELSE
        LET state == parts[4]
            parsed == parse_hex_address(parts[2])
            local_address == Unwrap(parsed)[1]
            port == Unwrap(parsed)[2]
            inode_parsed == ParseU64(parts[10])
            inode == IF IsSome(inode_parsed) THEN Unwrap(inode_parsed) ELSE 0
            owner == IF inode > 0 /\ inode \in DOMAIN inode_to_pid
                     THEN inode_to_pid[inode]
                     ELSE <<0, Desconocido>>
        IN  IF protocol = "tcp" /\ state # <<"0", "A">> THEN None
            ELSE IF protocol = "udp" /\ state # <<"0", "7">> THEN None
            ELSE IF ~IsSome(parsed) THEN None
            ELSE IF port = 0 THEN None
            ELSE Some(PortInfo(protocol, port, local_address, owner[1], owner[2]))

RECURSIVE FilterMapProc(_, _, _)
FilterMapProc(lines, protocol, inode_to_pid) ==
    IF lines = <<>> THEN <<>>
    ELSE parse_proc_net_line(lines[1], protocol, inode_to_pid)
         \o FilterMapProc(Tail(lines), protocol, inode_to_pid)

\* the first line parsed like the others
parse_proc_net_file_KeepFirst(content, protocol, inode_to_pid) ==
    FilterMapProc(Lines(content), protocol, inode_to_pid)

\* the header line is skipped
parse_proc_net_file(content, protocol, inode_to_pid) ==
    LET lines == Lines(content)
    IN  IF lines = <<>> THEN <<>>
        ELSE FilterMapProc(Tail(lines), protocol, inode_to_pid)

\* socket:[
SocketPrefix == <<"s", "o", "c", "k", "e", "t", ":", "[">>

extract_socket_inode(link) ==
    IF StartsWith(link, SocketPrefix) /\ EndsWith(link, <<"]">>)
    THEN ParseU64(Slice(link, 8, Len(link) - 1))
    ELSE None

\* comm is the content of /proc/<pid>/comm, None when it cannot be read
read_process_name(comm) == IF IsSome(comm) THEN Trim(Unwrap(comm)) ELSE Desconocido

\* the inodes of the socket links among the targets of /proc/<pid>/fd/*
SocketInodes(links) ==
    {Unwrap(extract_socket_inode(l)) : l \in {k \in links : IsSome(extract_socket_inode(k))}}

RECURSIVE InsertProcesses(_, _)
\* the loop over the entries of /proc in the order read_dir yields them; an
\* entry is [name, comm, fd]: the directory name, the content of comm, and
\* the link targets under fd (None when fd cannot be listed)
InsertProcesses(map, entries) ==
    IF entries = <<>> THEN map
    ELSE LET e == entries[1]
             pid == ParseU32(e.name)
             process_name == read_process_name(e.comm)
             inodes == SocketInodes(Unwrap(e.fd))
             next == IF ~IsSome(pid) \/ ~IsSome(e.fd) THEN map
                     ELSE [i \in DOMAIN map \cup inodes |->
                              IF i \in inodes THEN <<Unwrap(pid), process_name>> ELSE map[i]]
         IN  InsertProcesses(next, Tail(entries))

\* proc_dir is the listing of /proc (None when it cannot be read) in the
\* order read_dir yields it
build_inode_pid_map(proc_dir) ==
    IF ~IsSome(proc_dir) THEN <<>>
    ELSE InsertProcesses(<<>>, Unwrap(proc_dir))

\* the four files in the order they are read, with their protocol
ProcFiles == <<<<"/proc/net/tcp", "tcp">>, <<"/proc/net/tcp6", "tcp">>,
               <<"/proc/net/udp", "udp">>, <<"/proc/net/udp6", "udp">>>>

RECURSIVE ExtendFromFiles_StopAtUnreadable(_, _, _)
\* the loop over the files leaving at the first unreadable one
ExtendFromFiles_StopAtUnreadable(todo, files, inode_to_pid) ==
    IF todo = <<>> \/ ~IsSome(files[todo[1][1]]) THEN <<>>
    ELSE parse_proc_net_file(Unwrap(files[todo[1][1]]), todo[1][2], inode_to_pid)
            \o ExtendFromFiles_StopAtUnreadable(Tail(todo), files, inode_to_pid)

RECURSIVE ExtendFromFiles(_, _, _)
\* files maps each path to Some(content) or None (unreadable)
ExtendFromFiles(todo, files, inode_to_pid) ==
    IF todo = <<>> THEN <<>>
    ELSE LET path == todo[1][1]
             parsed == IF IsSome(files[path])
                       THEN parse_proc_net_file(Unwrap(files[path]), todo[1][2], inode_to_pid)
                       ELSE <<>>
         IN  parsed \o ExtendFromFiles(Tail(todo), files, inode_to_pid)

scan_proc_net_ports(files, proc_dir) ==
    ExtendFromFiles(ProcFiles, files, build_inode_pid_map(proc_dir))

\* ------------------------------------------------------------------------
\* The host and the program state
\* ------------------------------------------------------------------------

VARIABLES
    sudo_ss,     \* flag -> outcome of `sudo -n ss <flag>`
    ss,          \* flag -> outcome of `ss <flag>`
    proc_net,    \* path -> Some(content) of the /proc/net file, None if unreadable
    proc_dir,    \* Some(listing of /proc in read_dir order), None if unreadable
    pc,          \* where scan_open_ports stands
    ports_map,   \* scan_open_ports: the HashMap, key <<protocol, port>> -> PortInfo
    ss_records,  \* the records parse_ss_output produced, in insertion order (set A)
    proc_ports,  \* the records scan_proc_net_ports returned (set B)
    ports,       \* the vector scan_open_ports returns
    log,         \* the warnings logged by the call in progress or the last one
    kp_pc,       \* where kill_process stands: "idle", "kill" or "pkexec"
    kp_pid,      \* kill_process: its argument
    ka_pc,       \* where kill_all_port_processes stands: "idle" or "loop"
    unique_pids, \* kill_all_port_processes: the sorted, deduplicated pids
    pid_index,   \* kill_all_port_processes: how many of unique_pids the loop has taken
    killed_count, \* kill_all_port_processes: the successful terminations
    errors,      \* kill_all_port_processes: the messages of the failed ones
    trace,       \* the calls, external commands and returns of the current API call
    es_pc,       \* where execute_ss_command stands: "idle", "sudo" or "fallback"
    es_flags,    \* execute_ss_command: its argument
    tray_ports,  \* PortSlayerTray.ports: the list inside the Arc<Mutex<..>>
    lock_holder, \* who holds the mutex of the list: "none", "ui" or "bg"
    protocol_filter, \* PortSlayerTray.protocol_filter
    current_page,    \* PortSlayerTray.current_page
    page_size,       \* PortSlayerTray.page_size
    ui_pc,       \* where the service thread stands (a callback or menu())
    ui_new_ports,     \* refresh_ports: new_ports
    ui_current_ports, \* get_filtered_ports: current_ports, the copy of the list
    rendered,    \* what the last menu() showed
    bg_pc,       \* where the background thread of run_tray stands
    bg_new_ports,     \* run_tray: new_ports of the background thread
    scanned,     \* the lists the scans of the tray have returned so far
    host_lists,  \* the lists a scan of the host may return while the tray runs
    latest_scan, \* the result of the scan of the tray that started last
    nav_shown,   \* what the callbacks did since the last menu(): see Activated
    fn_call,     \* a call of a pure function: its name and arguments
    fn_result    \* None while the call is pending, then Some(returned value)

hostVars == <<sudo_ss, ss, proc_net, proc_dir>>

scanVars == <<pc, ports_map, ss_records, proc_ports, ports>>

killVars == <<kp_pc, kp_pid, ka_pc, unique_pids, pid_index, killed_count, errors, trace>>

ssVars == <<es_pc, es_flags>>

trayVars == <<tray_ports, lock_holder, protocol_filter, current_page, page_size, ui_pc,
              ui_new_ports, ui_current_ports, rendered, bg_pc, bg_new_ports, scanned,
              host_lists, latest_scan, nav_shown>>

pureVars == <<fn_call, fn_result>>

vars == <<sudo_ss, ss, proc_net, proc_dir, pc, ports_map, ss_records, proc_ports, ports, log,
          kp_pc, kp_pid, ka_pc, unique_pids, pid_index, killed_count, errors, trace,
          es_pc, es_flags, tray_ports, lock_holder, protocol_filter, current_page, page_size,
          ui_pc, ui_new_ports, ui_current_ports, rendered, bg_pc, bg_new_ports, scanned,
          host_lists, latest_scan, nav_shown,
          fn_call, fn_result>>

\* the outcome of running an external command: started is FALSE when the
\* process could not be spawned; stdout is None when it is not valid UTF-8
Outcome(started, success, stdout, stderr) ==
    [started |-> started, success |-> success, stdout |-> stdout, stderr |-> stderr]

\* the flags of the two invocations, in the order of the loop, with the protocol
SsFlags == <<<<"-tlnpH", "tcp">>, <<"-ulnpH", "udp">>>>

\* execute_ss_command took the fallback branch
SsFellBack(flags) == ~(sudo_ss[flags].started /\ sudo_ss[flags].success)

execute_ss_command(flags) ==
    IF ~SsFellBack(flags) THEN sudo_ss[flags].stdout
    ELSE IF ~ss[flags].started THEN None
    ELSE ss[flags].stdout

Key(port_info) == <<port_info.protocol, port_info.port>>

\* phase 1 keeping only the records with a known owner
InsertSs_KnownOnly(map, port_info) ==
    LET key == Key(port_info)
    IN  IF port_info.pid = 0 \/ key \in DOMAIN map THEN map
        ELSE [k \in DOMAIN map \cup {key} |-> IF k = key THEN port_info ELSE map[k]]

\* phase 1 as ports_map.insert(key, port_info): the later record replaces
InsertSs_Overwrite(map, port_info) ==
    LET key == Key(port_info)
    IN  [k \in DOMAIN map \cup {key} |-> IF k = key THEN port_info ELSE map[k]]

\* ports_map.entry(key).and_modify(..).or_insert(port_info) of phase 1
InsertSs(map, port_info) ==
    LET key == Key(port_info)
    IN  IF key \in DOMAIN map
        THEN IF map[key].pid = 0 /\ port_info.pid > 0
             THEN [map EXCEPT ![key] = port_info]
             ELSE map
        ELSE [k \in DOMAIN map \cup {key} |-> IF k = key THEN port_info ELSE map[k]]

\* phase 2 as ports_map.insert(key, port_info): the later record replaces
InsertProc_Overwrite(map, port_info) ==
    LET key == Key(port_info)
    IN  [k \in DOMAIN map \cup {key} |-> IF k = key THEN port_info ELSE map[k]]

\* ports_map.entry(key).or_insert(port_info) of phase 2
InsertProc(map, port_info) ==
    LET key == Key(port_info)
    IN  IF key \in DOMAIN map THEN map
        ELSE [k \in DOMAIN map \cup {key} |-> IF k = key THEN port_info ELSE map[k]]

RECURSIVE FoldSs(_, _)
FoldSs(map, parsed) ==
    IF parsed = <<>> THEN map ELSE FoldSs(InsertSs(map, parsed[1]), Tail(parsed))

RECURSIVE FoldProc(_, _)
FoldProc(map, parsed) ==
    IF parsed = <<>> THEN map ELSE FoldProc(InsertProc(map, parsed[1]), Tail(parsed))

\* what one ss invocation contributes: the parsed records, none when the
\* command gave no output
SsParsed(flags, protocol) ==
    LET output == execute_ss_command(flags)
    IN  IF IsSome(output) THEN parse_ss_output(Unwrap(output), protocol) ELSE <<>>

RECURSIVE SsParsedAll(_)
SsParsedAll(todo) ==
    IF todo = <<>> THEN <<>>
    ELSE SsParsed(todo[1][1], todo[1][2]) \o SsParsedAll(Tail(todo))

\* String's Ord on the two protocol names: "tcp" < "udp", the first byte decides
ProtocolLess(a, b) == a = "tcp" /\ b = "udp"

\* the order by port alone
KeyLess_PortOnly(p, q) == p.port < q.port

\* (p.port, p.protocol) < (q.port, q.protocol)
KeyLess(p, q) == p.port < q.port \/ (p.port = q.port /\ ProtocolLess(p.protocol, q.protocol))

\* the list left in the iteration order of the map
SortByKey_Unsorted(v) == v

RECURSIVE SortByKey(_)
\* Vec::sort_by_key: a stable sort, here by insertion
SortByKey(v) ==
    IF v = <<>> THEN <<>>
    ELSE LET rest == SortByKey(SubSeq(v, 1, Len(v) - 1))
             x == v[Len(v)]
             after == {i \in 1..Len(rest) : KeyLess(x, rest[i])}
             at == IF after = {} THEN Len(rest) + 1
                   ELSE CHOOSE i \in after : \A j \in after : i <= j
         IN  SubSeq(rest, 1, at - 1) \o <<x>> \o SubSeq(rest, at, Len(rest))

\* HashMap::into_values().collect(): the values in one of the orders the
\* hash map may iterate in
IntoValues(map) == {[i \in 1..Len(o) |-> map[o[i]]] : o \in Orders(DOMAIN map)}

\* scan_open_ports as a function of the two record sets: the list it returns
\* when parse_ss_output yields A and scan_proc_net_ports yields B (the sort
\* makes the list the same for every iteration order of the map)
scan_result(A, B) ==
    LET map == FoldProc(FoldSs(<<>>, A), B)
    IN  SortByKey(CHOOSE values \in IntoValues(map) : TRUE)

\* what a scan logs: a warning for each ss invocation that fell back
ScanWarnings ==
    [i \in 1..Cardinality({f \in {"-tlnpH", "-ulnpH"} : SsFellBack(f)}) |-> <<"warn", "ss sin sudo">>]

\* phase 1 of scan_open_ports: both ss invocations folded into the map
ScanSs ==
    /\ pc = "ss"
    /\ ss_records' = SsParsedAll(SsFlags)
    /\ ports_map' = FoldSs(<<>>, ss_records')
    /\ log' = log \o ScanWarnings
    /\ pc' = "proc"
    /\ UNCHANGED <<ssVars, trayVars, pureVars, hostVars, proc_ports, ports, killVars>>

\* phase 2: the /proc/net records inserted where the key is absent
ScanProc ==
    /\ pc = "proc"
    /\ proc_ports' = scan_proc_net_ports(proc_net, proc_dir)
    /\ ports_map' = FoldProc(ports_map, proc_ports')
    /\ pc' = "sort"
    /\ UNCHANGED <<ssVars, trayVars, pureVars, hostVars, ss_records, ports, log, killVars>>

\* the values collected and sorted by (port, protocol)
ScanSort ==
    /\ pc = "sort"
    /\ \E values \in IntoValues(ports_map) : ports' = SortByKey(values)
    /\ pc' = "done"
    /\ UNCHANGED <<ssVars, trayVars, pureVars, hostVars, ports_map, ss_records, proc_ports, log, killVars>>

\* ------------------------------------------------------------------------
\* The process terminator: kill_process and kill_all_port_processes
\* ------------------------------------------------------------------------

\* scan_open_ports on the host as it is: the list it returns
scan_open_ports ==
    scan_result(SsParsedAll(SsFlags), scan_proc_net_ports(proc_net, proc_dir))

Ok(v) == <<"Ok", v>>

Err(message) == <<"Err", message>>

\* the unit value ()
Unit == <<>>

\* No se puede matar un proceso con PID desconocido (0)
MsgUnknownPid ==
    <<"N", "o", " ", "s", "e", " ", "p", "u", "e", "d", "e", " ", "m", "a", "t", "a", "r", " ", "u", "n", " ", "p", "r", "o", "c", "e", "s", "o", " ", "c", "o", "n", " ", "P", "I", "D", " ", "d", "e", "s", "c", "o", "n", "o", "c", "i", "d", "o", " ", "(", "0", ")">>

\* Error ejecutando kill: 
MsgKillSpawn ==
    <<"E", "r", "r", "o", "r", " ", "e", "j", "e", "c", "u", "t", "a", "n", "d", "o", " ", "k", "i", "l", "l", ":", " ">>

\* Error ejecutando pkexec: 
MsgPkexecSpawn ==
    <<"E", "r", "r", "o", "r", " ", "e", "j", "e", "c", "u", "t", "a", "n", "d", "o", " ", "p", "k", "e", "x", "e", "c", ":", " ">>

\* No se pudo matar el proceso 
MsgNotKilled ==
    <<"N", "o", " ", "s", "e", " ", "p", "u", "d", "o", " ", "m", "a", "t", "a", "r", " ", "e", "l", " ", "p", "r", "o", "c", "e", "s", "o", " ">>

\* No hay procesos con PID conocido que cerrar
MsgNoKnownPid ==
    <<"N", "o", " ", "h", "a", "y", " ", "p", "r", "o", "c", "e", "s", "o", "s", " ", "c", "o", "n", " ", "P", "I", "D", " ", "c", "o", "n", "o", "c", "i", "d", "o", " ", "q", "u", "e", " ", "c", "e", "r", "r", "a", "r">>

\* No such file or directory (os error 2)
SpawnErrorText ==
    <<"N", "o", " ", "s", "u", "c", "h", " ", "f", "i", "l", "e", " ", "o", "r", " ", "d", "i", "r", "e", "c", "t", "o", "r", "y", " ", "(", "o", "s", " ", "e", "r", "r", "o", "r", " ", "2", ")">>

\* Not authorized
PkexecStderr ==
    <<"N", "o", "t", " ", "a", "u", "t", "h", "o", "r", "i", "z", "e", "d">>

\* the ways an external command may end: it could not be started, it exited
\* with a failure status, it succeeded
CommandOutcomes ==
    {Outcome(FALSE, FALSE, None, <<>>),
     Outcome(TRUE, FALSE, Some(<<>>), PkexecStderr),
     Outcome(TRUE, TRUE, Some(<<>>), <<>>)}

CallEvent(fn, pid) == [ev |-> "call", fn |-> fn, pid |-> pid]

ExecEvent(cmd, pid, outcome) == [ev |-> "exec", cmd |-> cmd, pid |-> pid, outcome |-> outcome]

ReturnEvent(fn, pid, result) == [ev |-> "return", fn |-> fn, pid |-> pid, result |-> result]

\* execute_ss_command is not running on its own
SsIdle == es_pc = "idle" /\ es_flags = ""

\* no tray is running
TrayIdle ==
    /\ tray_ports = <<>>
    /\ lock_holder = "none"
    /\ protocol_filter = "All"
    /\ current_page = 0
    /\ page_size = 0
    /\ ui_pc = "off"
    /\ ui_new_ports = <<>>
    /\ ui_current_ports = <<>>
    /\ rendered = <<>>
    /\ bg_pc = "off"
    /\ bg_new_ports = <<>>
    /\ scanned = {}
    /\ host_lists = {}
    /\ latest_scan = <<>>
    /\ nav_shown = <<>>

\* no pure function is being applied
PureIdle == fn_call = <<>> /\ fn_result = <<>>

\* no call of the terminator is in progress
KillIdle ==
    /\ kp_pc = "idle"
    /\ kp_pid = 0
    /\ ka_pc = "idle"
    /\ unique_pids = <<>>
    /\ pid_index = 0
    /\ killed_count = 0
    /\ errors = <<>>
    /\ trace = <<>>

\* kill_process(pid) returns result after the events so far: to the caller of
\* the API, or into the match of the loop of kill_all_port_processes
KillProcessReturns(events, pid, result) ==
    /\ trace' = events \o <<ReturnEvent("kill_process", pid, result)>>
    /\ kp_pc' = "idle"
    /\ IF ka_pc' = "loop"
       THEN IF result[1] = "Ok"
            THEN killed_count' = killed_count + 1 /\ errors' = errors
            ELSE killed_count' = killed_count /\ errors' = Append(errors, result[2])
       ELSE killed_count' = 0 /\ errors' = <<>>

\* the entry of kill_process without the test of pid == 0
KillProcessEnter_Unguarded(events, pid) ==
    /\ kp_pid' = pid
    /\ trace' = events \o <<CallEvent("kill_process", pid)>>
    /\ kp_pc' = "kill"
    /\ IF ka_pc' = "loop" THEN UNCHANGED <<killed_count, errors>>
       ELSE killed_count' = 0 /\ errors' = <<>>

\* the entry of kill_process(pid), up to the start of `kill -9 <pid>`; events
\* are those before the call
KillProcessEnter(events, pid) ==
    /\ kp_pid' = pid
    /\ IF pid = 0
       THEN KillProcessReturns(events \o <<CallEvent("kill_process", pid)>>, pid,
                               Err(MsgUnknownPid))
       ELSE /\ trace' = events \o <<CallEvent("kill_process", pid)>>
            /\ kp_pc' = "kill"
            /\ IF ka_pc' = "loop" THEN UNCHANGED <<killed_count, errors>>
               ELSE killed_count' = 0 /\ errors' = <<>>

\* the pids a caller may pass to kill_process
KillPids == {0, 77, 12345}

\* a caller calls kill_process(pid)
KillProcessCall ==
    /\ kp_pc = "idle" /\ ka_pc = "idle"
    /\ ka_pc' = "idle"
    /\ \E pid \in KillPids : KillProcessEnter(<<>>, pid)
    /\ unique_pids' = <<>> /\ pid_index' = 0
    /\ log' = <<>>
    /\ UNCHANGED <<ssVars, trayVars, pureVars, hostVars, scanVars>>

\* kill_process: `kill -9 <pid>` has run
RunKill ==
    /\ kp_pc = "kill"
    /\ ka_pc' = ka_pc
    /\ \E outcome \in CommandOutcomes :
          LET events == Append(trace, ExecEvent("kill", kp_pid, outcome))
          IN  IF ~outcome.started
              THEN /\ KillProcessReturns(events, kp_pid, Err(MsgKillSpawn \o SpawnErrorText))
                   /\ log' = log
              ELSE IF outcome.success
              THEN /\ KillProcessReturns(events, kp_pid, Ok(Unit))
                   /\ log' = log
              ELSE /\ trace' = events
                   /\ kp_pc' = "pkexec"
                   /\ log' = Append(log, <<"warn", "kill sin permisos fallo">>)
                   /\ UNCHANGED <<killed_count, errors>>
    /\ UNCHANGED <<ssVars, trayVars, pureVars, hostVars, scanVars, kp_pid, unique_pids, pid_index>>

\* kill_process: `pkexec kill -9 <pid>` has run
RunPkexec ==
    /\ kp_pc = "pkexec"
    /\ ka_pc' = ka_pc
    /\ \E outcome \in CommandOutcomes :
          LET events == Append(trace, ExecEvent("pkexec", kp_pid, outcome))
          IN  IF ~outcome.started
              THEN KillProcessReturns(events, kp_pid, Err(MsgPkexecSpawn \o SpawnErrorText))
              ELSE IF outcome.success
              THEN KillProcessReturns(events, kp_pid, Ok(Unit))
              ELSE KillProcessReturns(events, kp_pid,
                       Err(MsgNotKilled \o ToDecimal(kp_pid) \o <<":", " ">> \o outcome.stderr))
    /\ UNCHANGED <<ssVars, trayVars, pureVars, hostVars, scanVars, log, kp_pid, unique_pids, pid_index>>

\* Vec::dedup: consecutive repeated elements removed
RECURSIVE Dedup(_)
Dedup(v) ==
    IF Len(v) <= 1 THEN v
    ELSE IF v[1] = v[2] THEN Dedup(Tail(v))
    ELSE <<v[1]>> \o Dedup(Tail(v))

RECURSIVE SortPids(_)
\* Vec<u32>::sort
SortPids(v) ==
    IF v = <<>> THEN <<>>
    ELSE LET rest == SortPids(SubSeq(v, 1, Len(v) - 1))
             x == v[Len(v)]
             at == Cardinality({i \in 1..Len(rest) : rest[i] <= x}) + 1
         IN  SubSeq(rest, 1, at - 1) \o <<x>> \o SubSeq(rest, at, Len(rest))

\* the pids of the list without the filter
KnownPids_All(list) == [i \in 1..Len(list) |-> list[i].pid]

RECURSIVE KnownPids(_)
\* ports.iter().map(|p| p.pid).filter(|pid| *pid > 0).collect()
KnownPids(list) ==
    IF list = <<>> THEN <<>>
    ELSE (IF list[1].pid > 0 THEN <<list[1].pid>> ELSE <<>>) \o KnownPids(Tail(list))

\* the pids collected without unique_pids.sort()
UniquePids_Unsorted(list) == Dedup(KnownPids(list))

\* the unique pids kill_all_port_processes terminates, from the scanned list
UniquePids(list) == Dedup(SortPids(KnownPids(list)))

\* a caller calls kill_all_port_processes(): the scan, the early returns and
\* the collection of the pids
KillAllCall ==
    /\ kp_pc = "idle" /\ ka_pc = "idle"
    /\ LET list == scan_open_ports
           call == CallEvent("kill_all_port_processes", 0)
       IN  /\ unique_pids' = IF list = <<>> THEN <<>> ELSE UniquePids(list)
           /\ IF list = <<>>
              THEN /\ trace' = <<call, ReturnEvent("kill_all_port_processes", 0, Ok(0))>>
                   /\ ka_pc' = "idle"
              ELSE IF unique_pids' = <<>>
              THEN /\ trace' = <<call, ReturnEvent("kill_all_port_processes", 0, Err(MsgNoKnownPid))>>
                   /\ ka_pc' = "idle"
              ELSE /\ trace' = <<call>>
                   /\ ka_pc' = "loop"
    /\ pid_index' = 0 /\ killed_count' = 0 /\ errors' = <<>> /\ kp_pid' = 0
    /\ log' = ScanWarnings
    /\ UNCHANGED <<ssVars, trayVars, pureVars, hostVars, scanVars, kp_pc>>

\* the loop of kill_all_port_processes takes the next pid and calls kill_process
KillAllNext ==
    /\ ka_pc = "loop" /\ kp_pc = "idle"
    /\ pid_index < Len(unique_pids)
    /\ pid_index' = pid_index + 1
    /\ ka_pc' = ka_pc
    /\ KillProcessEnter(trace, unique_pids[pid_index + 1])
    /\ UNCHANGED <<ssVars, trayVars, pureVars, hostVars, scanVars, log, unique_pids>>

\* a batch that fails as soon as one termination failed
BatchResult_FailOnAnyError(count, failures) ==
    IF failures = <<>> THEN Ok(count) ELSE Err(Join(failures, <<";", " ">>))

\* every attempt counted as a termination
BatchResult_CountAttempts(count, failures) == Ok(count + Len(failures))

\* the value kill_all_port_processes returns after the loop
BatchResult(count, failures) ==
    IF failures = <<>> THEN Ok(count)
    ELSE IF count > 0 THEN Ok(count)
    ELSE Err(Join(failures, <<";", " ">>))

\* the loop is over: kill_all_port_processes returns
KillAllReturn ==
    /\ ka_pc = "loop" /\ kp_pc = "idle"
    /\ pid_index = Len(unique_pids)
    /\ trace' = Append(trace, ReturnEvent("kill_all_port_processes", 0,
                                          BatchResult(killed_count, errors)))
    /\ log' = IF errors # <<>> /\ killed_count > 0
              THEN Append(log, <<"warn", "se mataron, pero hubo errores", killed_count, errors>>)
              ELSE log
    /\ ka_pc' = "idle"
    /\ UNCHANGED <<ssVars, trayVars, pureVars, hostVars, scanVars, kp_pc, kp_pid, unique_pids, pid_index, killed_count, errors>>

\* ------------------------------------------------------------------------
\* The hosts the scan is checked on
\* ------------------------------------------------------------------------

\* the sequences of at most n elements of the set S
SeqsUpTo(S, n) == UNION {[1..k -> S] : k \in 0..n}

Range(f) == {f[i] : i \in DOMAIN f}

RECURSIVE Unlines(_)
\* the lines, each ended by a newline
Unlines(lines) ==
    IF lines = <<>> THEN <<>> ELSE lines[1] \o <<"\n">> \o Unlines(Tail(lines))

\* the most lines `ss -tlnpH` prints
MaxSsLines == 2

\* the most sockets /proc/net/tcp lists
MaxProcLines == 2

\* lines of `ss -tlnpH`
SsTcpLines ==
    <<
      \* LISTEN 0 128 0.0.0.0:8080 0.0.0.0:* users:(("node",pid=12345,fd=19))
      <<"L", "I", "S", "T", "E", "N", " ", "0", " ", "1", "2", "8", " ", "0", ".", "0", ".", "0", ".", "0", ":", "8", "0", "8", "0", " ", "0", ".", "0", ".", "0", ".", "0", ":", "*", " ", "u", "s", "e", "r", "s", ":", "(", "(", "\"", "n", "o", "d", "e", "\"", ",", "p", "i", "d", "=", "1", "2", "3", "4", "5", ",", "f", "d", "=", "1", "9", ")", ")">>,
      \* LISTEN 0 4096 *:8080 *:*
      <<"L", "I", "S", "T", "E", "N", " ", "0", " ", "4", "0", "9", "6", " ", "*", ":", "8", "0", "8", "0", " ", "*", ":", "*">>,
      \* LISTEN 0 128 [::]:8080 [::]:* users:(("nginx",pid=77,fd=6))
      <<"L", "I", "S", "T", "E", "N", " ", "0", " ", "1", "2", "8", " ", "[", ":", ":", "]", ":", "8", "0", "8", "0", " ", "[", ":", ":", "]", ":", "*", " ", "u", "s", "e", "r", "s", ":", "(", "(", "\"", "n", "g", "i", "n", "x", "\"", ",", "p", "i", "d", "=", "7", "7", ",", "f", "d", "=", "6", ")", ")">>,
      \* LISTEN 0 5 127.0.0.1:0 0.0.0.0:*
      <<"L", "I", "S", "T", "E", "N", " ", "0", " ", "5", " ", "1", "2", "7", ".", "0", ".", "0", ".", "1", ":", "0", " ", "0", ".", "0", ".", "0", ".", "0", ":", "*">>
    >>

\* lines of `ss -ulnpH`
SsUdpLines ==
    <<
      \* UNCONN 0 0 0.0.0.0:8080 0.0.0.0:*
      <<"U", "N", "C", "O", "N", "N", " ", "0", " ", "0", " ", "0", ".", "0", ".", "0", ".", "0", ":", "8", "0", "8", "0", " ", "0", ".", "0", ".", "0", ".", "0", ":", "*">>
    >>

\* the header line of a /proc/net file
ProcNetHeader ==
    <<"s", "l", " ", "l", "o", "c", "a", "l", "_", "a", "d", "d", "r", "e", "s", "s", " ", "r", "e", "m", "_", "a", "d", "d", "r", "e", "s", "s", " ", "s", "t", " ", "t", "x", "_", "q", "u", "e", "u", "e", " ", "r", "x", "_", "q", "u", "e", "u", "e", " ", "t", "r", " ", "t", "m", "-", ">", "w", "h", "e", "n", " ", "r", "e", "t", "r", "n", "s", "m", "t", " ", "u", "i", "d", " ", "t", "i", "m", "e", "o", "u", "t", " ", "i", "n", "o", "d", "e">>

\* lines of /proc/net/tcp
ProcTcpLines ==
    <<
      \* 0: 00000000:1F90 00000000:0000 0A 0:0 0:0 0 0 0 22881
      <<"0", ":", " ", "0", "0", "0", "0", "0", "0", "0", "0", ":", "1", "F", "9", "0", " ", "0", "0", "0", "0", "0", "0", "0", "0", ":", "0", "0", "0", "0", " ", "0", "A", " ", "0", ":", "0", " ", "0", ":", "0", " ", "0", " ", "0", " ", "0", " ", "2", "2", "8", "8", "1">>,
      \* 1: 0100007F:1F90 00000000:0000 0A 0:0 0:0 0 0 0 0
      <<"1", ":", " ", "0", "1", "0", "0", "0", "0", "7", "F", ":", "1", "F", "9", "0", " ", "0", "0", "0", "0", "0", "0", "0", "0", ":", "0", "0", "0", "0", " ", "0", "A", " ", "0", ":", "0", " ", "0", ":", "0", " ", "0", " ", "0", " ", "0", " ", "0">>,
      \* 2: 00000000:0BB8 00000000:0000 0A 0:0 0:0 0 0 0 500
      <<"2", ":", " ", "0", "0", "0", "0", "0", "0", "0", "0", ":", "0", "B", "B", "8", " ", "0", "0", "0", "0", "0", "0", "0", "0", ":", "0", "0", "0", "0", " ", "0", "A", " ", "0", ":", "0", " ", "0", ":", "0", " ", "0", " ", "0", " ", "0", " ", "5", "0", "0">>
    >>

\* lines of /proc/net/udp
ProcUdpLines ==
    <<
      \* 0: 00000000:1F90 00000000:0000 07 0:0 0:0 0 0 0 0
      <<"0", ":", " ", "0", "0", "0", "0", "0", "0", "0", "0", ":", "1", "F", "9", "0", " ", "0", "0", "0", "0", "0", "0", "0", "0", ":", "0", "0", "0", "0", " ", "0", "7", " ", "0", ":", "0", " ", "0", ":", "0", " ", "0", " ", "0", " ", "0", " ", "0">>
    >>

\* the processes of the host as entries of /proc: node and nginx both hold
\* the socket 22881; read_dir lists nginx first
ProcNode ==
    [name |-> <<"1", "2", "3", "4", "5">>, comm |-> Some(<<"n", "o", "d", "e", "\n">>),
     fd |-> Some({SocketPrefix \o <<"2", "2", "8", "8", "1", "]">>})]

ProcNginx ==
    [name |-> <<"7", "7">>, comm |-> Some(<<"n", "g", "i", "n", "x", "\n">>),
     fd |-> Some({SocketPrefix \o <<"2", "2", "8", "8", "1", "]">>,
                  <<"p", "i", "p", "e", ":", "[", "5", "]">>})]

ProcFile(lines) == Some(Unlines(<<ProcNetHeader>> \o lines))

Init ==
    /\ \E tcp \in SeqsUpTo(Range(SsTcpLines), MaxSsLines), udp \in SeqsUpTo(Range(SsUdpLines), 1) :
          sudo_ss = [f \in {"-tlnpH", "-ulnpH"} |->
                        Outcome(TRUE, TRUE, Some(Unlines(IF f = "-tlnpH" THEN tcp ELSE udp)), <<>>)]
    /\ ss = [f \in {"-tlnpH", "-ulnpH"} |-> Outcome(FALSE, FALSE, None, <<>>)]
    /\ \E tcp \in SeqsUpTo(Range(ProcTcpLines), MaxProcLines), udp \in SeqsUpTo(Range(ProcUdpLines), 1) :
          proc_net = [path \in {"/proc/net/tcp", "/proc/net/tcp6", "/proc/net/udp", "/proc/net/udp6"} |->
                         IF path = "/proc/net/tcp" THEN ProcFile(tcp)
                         ELSE IF path = "/proc/net/udp" THEN ProcFile(udp)
                         ELSE IF path = "/proc/net/tcp6" THEN ProcFile(<<>>)
                         ELSE None]
    /\ proc_dir = Some(<<ProcNginx, ProcNode>>)
    /\ pc = "ss"
    /\ ports_map = <<>>
    /\ ss_records = <<>>
    /\ proc_ports = <<>>
    /\ ports = <<>>
    /\ log = <<>>
    /\ KillIdle
    /\ SsIdle
    /\ TrayIdle
    /\ PureIdle

Next == ScanSs \/ ScanProc \/ ScanSort

Spec == Init /\ [][Next]_vars

\* ------------------------------------------------------------------------
\* The terminator on the hosts it is checked on (specification SpecKill)
\* ------------------------------------------------------------------------

\* lines of `ss -tlnpH` with their owners
KillSsTcpLines ==
    <<
      \* LISTEN 0 128 0.0.0.0:3000 0.0.0.0:* users:(("nginx",pid=77,fd=6))
      <<"L", "I", "S", "T", "E", "N", " ", "0", " ", "1", "2", "8", " ", "0", ".", "0", ".", "0", ".", "0", ":", "3", "0", "0", "0", " ", "0", ".", "0", ".", "0", ".", "0", ":", "*", " ", "u", "s", "e", "r", "s", ":", "(", "(", "\"", "n", "g", "i", "n", "x", "\"", ",", "p", "i", "d", "=", "7", "7", ",", "f", "d", "=", "6", ")", ")">>,
      \* LISTEN 0 128 0.0.0.0:22 0.0.0.0:* users:(("sshd",pid=900,fd=3))
      <<"L", "I", "S", "T", "E", "N", " ", "0", " ", "1", "2", "8", " ", "0", ".", "0", ".", "0", ".", "0", ":", "2", "2", " ", "0", ".", "0", ".", "0", ".", "0", ":", "*", " ", "u", "s", "e", "r", "s", ":", "(", "(", "\"", "s", "s", "h", "d", "\"", ",", "p", "i", "d", "=", "9", "0", "0", ",", "f", "d", "=", "3", ")", ")">>,
      \* LISTEN 0 4096 *:8080 *:*
      <<"L", "I", "S", "T", "E", "N", " ", "0", " ", "4", "0", "9", "6", " ", "*", ":", "8", "0", "8", "0", " ", "*", ":", "*">>
    >>

\* lines of `ss -ulnpH`
KillSsUdpLines ==
    <<
      \* UNCONN 0 0 0.0.0.0:8080 0.0.0.0:* users:(("nginx",pid=77,fd=7))
      <<"U", "N", "C", "O", "N", "N", " ", "0", " ", "0", " ", "0", ".", "0", ".", "0", ".", "0", ":", "8", "0", "8", "0", " ", "0", ".", "0", ".", "0", ".", "0", ":", "*", " ", "u", "s", "e", "r", "s", ":", "(", "(", "\"", "n", "g", "i", "n", "x", "\"", ",", "p", "i", "d", "=", "7", "7", ",", "f", "d", "=", "7", ")", ")">>,
      \* UNCONN 0 0 0.0.0.0:8080 0.0.0.0:*
      <<"U", "N", "C", "O", "N", "N", " ", "0", " ", "0", " ", "0", ".", "0", ".", "0", ".", "0", ":", "8", "0", "8", "0", " ", "0", ".", "0", ".", "0", ".", "0", ":", "*">>
    >>

InitKill ==
    /\ \E tcp \in SeqsUpTo(Range(KillSsTcpLines), MaxSsLines), udp \in SeqsUpTo(Range(KillSsUdpLines), 1) :
          sudo_ss = [f \in {"-tlnpH", "-ulnpH"} |->
                        Outcome(TRUE, TRUE, Some(Unlines(IF f = "-tlnpH" THEN tcp ELSE udp)), <<>>)]
    /\ ss = [f \in {"-tlnpH", "-ulnpH"} |-> Outcome(FALSE, FALSE, None, <<>>)]
    /\ proc_net = [path \in {"/proc/net/tcp", "/proc/net/tcp6", "/proc/net/udp", "/proc/net/udp6"} |->
                       IF path = "/proc/net/udp6" THEN None ELSE ProcFile(<<>>)]
    /\ proc_dir = Some(<<ProcNginx, ProcNode>>)
    /\ pc = "idle"
    /\ ports_map = <<>>
    /\ ss_records = <<>>
    /\ proc_ports = <<>>
    /\ ports = <<>>
    /\ log = <<>>
    /\ KillIdle
    /\ SsIdle
    /\ TrayIdle
    /\ PureIdle

NextKill ==
    \/ KillProcessCall
    \/ KillAllCall
    \/ KillAllNext
    \/ RunKill
    \/ RunPkexec
    \/ KillAllReturn

SpecKill == InitKill /\ [][NextKill]_vars

\* ------------------------------------------------------------------------
\* Properties of the scan (specification Spec)
\* ------------------------------------------------------------------------

\* the rearrangements of a sequence
Perms(seq) == {[i \in 1..Len(seq) |-> seq[o[i]]] : o \in Orders(1..Len(seq))}

KeysOf(seq) == [i \in 1..Len(seq) |-> Key(seq[i])]

\* no two records of the sequence share a (protocol, port) key
DistinctKeys(seq) == \A i, j \in 1..Len(seq) : Key(seq[i]) = Key(seq[j]) => i = j

\* the records of both sources
SourceRecords == Range(ss_records) \cup Range(proc_ports)

\* C1: when the scan has returned, every key for which some record of the ss
\* source or of the /proc/net source has a known owner (pid > 0) has a
\* returned record with pid > 0.
C1_KnownOwnerSurvives ==
    pc = "done" =>
        \A r \in SourceRecords :
            r.pid > 0 => \E i \in 1..Len(ports) : Key(ports[i]) = Key(r) /\ ports[i].pid > 0

\* C2: the returned list holds at most one record per (protocol, port) key and
\* every record in it has port > 0.
C2_OnePerKeyPortPositive ==
    /\ \A i, j \in 1..Len(ports) : Key(ports[i]) = Key(ports[j]) => i = j
    /\ \A i \in 1..Len(ports) : ports[i].port > 0

\* C2 witness: a scan returned two records or more from sources that held two
\* records of one key and a line whose port is 0.
C2_Witness ==
    /\ pc = "done"
    /\ Len(ports) >= 2
    /\ ~DistinctKeys(ss_records \o proc_ports)
    /\ \E i \in 1..Len(Lines(Unwrap(sudo_ss["-tlnpH"].stdout))) :
          Lines(Unwrap(sudo_ss["-tlnpH"].stdout))[i] = SsTcpLines[4]

\* C3 as claimed: every rearrangement of the records of A and of the records
\* of B gives the list the scan returned.
C3_OrderIndependent ==
    pc = "done" =>
        \A pA \in Perms(ss_records), pB \in Perms(proc_ports) : scan_result(pA, pB) = ports

\* C3 amended: the list returned is the one function of A and B in their given
\* order; every rearrangement of A and of B gives the same keys in the same
\* order, and the same records when no two records of A share a key and no
\* two records of B share a key.
C3_OrderIndependentKeys ==
    pc = "done" =>
        /\ scan_result(ss_records, proc_ports) = ports
        /\ \A pA \in Perms(ss_records), pB \in Perms(proc_ports) :
              /\ KeysOf(scan_result(pA, pB)) = KeysOf(ports)
              /\ DistinctKeys(ss_records) /\ DistinctKeys(proc_ports)
                    => scan_result(pA, pB) = ports

\* C3 witness: a scan returned from two sources of two records each, without
\* a repeated key inside a source and with a key that both sources hold.
C3_Witness ==
    /\ pc = "done"
    /\ Len(ss_records) >= 2 /\ Len(proc_ports) >= 2
    /\ DistinctKeys(ss_records) /\ DistinctKeys(proc_ports)
    /\ \E a \in Range(ss_records), b \in Range(proc_ports) : Key(a) = Key(b) /\ a # b

\* C4: the returned list is strictly ascending by (port, protocol), and it
\* holds exactly the keys of the map: a record's position is fixed by the
\* set of keys alone.
C4_SortedByPortProtocol ==
    pc = "done" =>
        /\ \A i \in 1..(Len(ports) - 1) :
              \/ ports[i].port < ports[i + 1].port
              \/ /\ ports[i].port = ports[i + 1].port
                 /\ ports[i].protocol = "tcp" /\ ports[i + 1].protocol = "udp"
        /\ Len(ports) = Cardinality(DOMAIN ports_map)
        /\ \A i \in 1..Len(ports) :
              /\ Key(ports[i]) \in DOMAIN ports_map
              /\ ports[i] = ports_map[Key(ports[i])]

\* C4 witness: the returned list holds a tcp and a udp record of one port and
\* a record of another port.
C4_Witness ==
    /\ pc = "done"
    /\ \E i, j, k \in 1..Len(ports) :
          /\ ports[i].port = ports[j].port /\ ports[i].protocol # ports[j].protocol
          /\ ports[k].port # ports[i].port

\* "node"
NodeName == <<"n", "o", "d", "e">>

\* C5: for every key that occurs in A the returned record of that key is a
\* record of A; and when A holds (tcp, 8080) owned by (12345, "node") and B holds
\* (tcp, 8080) without owner, the list has exactly one (tcp, 8080) record, owned
\* by (12345, "node").
C5_SsNeverDowngraded ==
    pc = "done" =>
        /\ \A i \in 1..Len(ports) :
              (\E a \in Range(ss_records) : Key(a) = Key(ports[i]))
                  => ports[i] \in Range(ss_records)
        /\ \A a \in Range(ss_records) : \E i \in 1..Len(ports) : Key(ports[i]) = Key(a)
        /\ ( /\ \E a \in Range(ss_records) : Key(a) = <<"tcp", 8080>>
             /\ \A a \in Range(ss_records) :
                   Key(a) = <<"tcp", 8080>> => a.pid = 12345 /\ a.process_name = NodeName
             /\ \E b \in Range(proc_ports) : Key(b) = <<"tcp", 8080>> /\ b.pid = 0 )
           => /\ Cardinality({i \in 1..Len(ports) : Key(ports[i]) = <<"tcp", 8080>>}) = 1
              /\ \A i \in 1..Len(ports) :
                    Key(ports[i]) = <<"tcp", 8080>>
                        => ports[i].pid = 12345 /\ ports[i].process_name = NodeName

\* C5 witness: the scenario has happened: A held (tcp, 8080) of (12345, "node"),
\* B held (tcp, 8080) without owner, and the scan returned.
C5_Witness ==
    /\ pc = "done"
    /\ \E a \in Range(ss_records) : Key(a) = <<"tcp", 8080>>
    /\ \A a \in Range(ss_records) :
          Key(a) = <<"tcp", 8080>> => a.pid = 12345 /\ a.process_name = NodeName
    /\ \E b \in Range(proc_ports) : Key(b) = <<"tcp", 8080>> /\ b.pid = 0

\* C6 as claimed: when both sources hold the same record set S the returned
\* records are S, and when B is empty the returned records are those of A.
C6_Idempotent ==
    pc = "done" =>
        /\ Range(ss_records) = Range(proc_ports) => Range(ports) = Range(ss_records)
        /\ proc_ports = <<>> => Range(ports) = Range(ss_records)

\* C6 amended: the same, for record sets in which no two records share a
\* (protocol, port) key.
C6_IdempotentDistinctKeys ==
    pc = "done" /\ DistinctKeys(ss_records) /\ DistinctKeys(proc_ports) =>
        /\ Range(ss_records) = Range(proc_ports)
              => Range(ports) = Range(ss_records) /\ Len(ports) = Len(ss_records)
        /\ proc_ports = <<>>
              => Range(ports) = Range(ss_records) /\ Len(ports) = Len(ss_records)

\* C6 witness: both sources held the same two records of different keys, and
\* the scan returned.
C6_Witness ==
    /\ pc = "done"
    /\ Len(ss_records) = 2 /\ DistinctKeys(ss_records) /\ DistinctKeys(proc_ports)
    /\ Range(ss_records) = Range(proc_ports)

\* ------------------------------------------------------------------------
\* Properties of the terminator (specification SpecKill)
\* ------------------------------------------------------------------------

IsCall(e, fn) == e.ev = "call" /\ e.fn = fn

IsReturn(e, fn) == e.ev = "return" /\ e.fn = fn

IsExec(e, cmd, pid) == e.ev = "exec" /\ e.cmd = cmd /\ e.pid = pid

\* the command ended with a success status
Succeeded(outcome) == outcome.started /\ outcome.success

\* the calls and the returns of kill_process in the trace, in their order
KillCalls == SelectSeq(trace, LAMBDA e : IsCall(e, "kill_process"))

KillReturns == SelectSeq(trace, LAMBDA e : IsReturn(e, "kill_process"))

\* the trace is that of a batch; the batch has returned
InBatch == trace # <<>> /\ IsCall(trace[1], "kill_all_port_processes")

BatchReturned == InBatch /\ IsReturn(trace[Len(trace)], "kill_all_port_processes")

\* the number of terminations of the trace that succeeded, and the messages
\* of those that failed
Successes == Len(SelectSeq(KillReturns, LAMBDA e : e.result[1] = "Ok"))

FailureMessages ==
    LET failed == SelectSeq(KillReturns, LAMBDA e : e.result[1] = "Err")
    IN  [i \in 1..Len(failed) |-> failed[i].result[2]]

\* the text a Result<usize, String> carries: the String of Err, none in Ok
TextOf(result) == IF result[1] = "Err" THEN result[2] ELSE <<>>

\* the known pids of the list a scan of the host returns
ScannedPids == {scan_open_ports[i].pid : i \in 1..Len(scan_open_ports)} \ {0}

\* C7: kill_process(0) returns an error at once, and no external command
\* (kill or pkexec) is ever run for pid 0.
C7_ZeroPidRejected ==
    /\ \A i \in 1..Len(trace) :
          IsCall(trace[i], "kill_process") /\ trace[i].pid = 0 =>
              /\ i < Len(trace)
              /\ IsReturn(trace[i + 1], "kill_process")
              /\ trace[i + 1].pid = 0
              /\ trace[i + 1].result = Err(MsgUnknownPid)
    /\ \A i \in 1..Len(trace) : trace[i].ev = "exec" => trace[i].pid # 0

\* C7 witness: kill_process(0) has been called.
C7_Witness ==
    \E i \in 1..Len(trace) : IsCall(trace[i], "kill_process") /\ trace[i].pid = 0

\* C8: for pid > 0 the first step of kill_process is the unprivileged kill;
\* after any failure of it (not started, or a failure status) the next step is
\* one pkexec attempt; after a success the call returns Ok without pkexec; and
\* the call returns an error only when the pkexec attempt failed too.
C8_FallbackOnAnyFailure ==
    \A i \in 1..Len(trace) :
        IsCall(trace[i], "kill_process") /\ trace[i].pid > 0 =>
            /\ i + 1 <= Len(trace) => IsExec(trace[i + 1], "kill", trace[i].pid)
            /\ i + 2 <= Len(trace) =>
                  IF Succeeded(trace[i + 1].outcome)
                  THEN /\ IsReturn(trace[i + 2], "kill_process")
                       /\ trace[i + 2].result = Ok(Unit)
                  ELSE IsExec(trace[i + 2], "pkexec", trace[i].pid)
            /\ i + 3 <= Len(trace) /\ trace[i + 2].ev = "exec" =>
                  /\ IsReturn(trace[i + 3], "kill_process")
                  /\ trace[i + 3].result[1] = "Err" <=> ~Succeeded(trace[i + 2].outcome)

\* C9 as claimed: when a batch returns after some terminations succeeded and
\* one or more failed, the returned value is a success that carries the number
\* of successes and every failure message.
C9_ReturnsCountAndFailures ==
    BatchReturned /\ Successes > 0 /\ FailureMessages # <<>> =>
        LET result == trace[Len(trace)].result
        IN  /\ result[1] = "Ok"
            /\ result[2] = Successes
            /\ \A i \in 1..Len(FailureMessages) : Contains(TextOf(result), FailureMessages[i])

\* C9 amended: a batch that made terminations returns Ok(n), n the number of
\* successes and nothing else, when one or more succeeded; the messages of the
\* failures are then only logged as a warning; it returns Err with the
\* messages joined by "; " only when every termination failed.
C9_PartialSuccessReturnsCount ==
    BatchReturned /\ KillCalls # <<>> =>
        LET result == trace[Len(trace)].result
        IN  /\ Successes > 0 => result[1] = "Ok" /\ result[2] = Successes
            /\ Successes > 0 /\ FailureMessages # <<>> =>
                  /\ log # <<>>
                  /\ log[Len(log)] = <<"warn", "se mataron, pero hubo errores",
                                        Successes, FailureMessages>>
            /\ Successes = 0 =>
                  /\ result[1] = "Err"
                  /\ result[2] = Join(FailureMessages, <<";", " ">>)

\* C9 witness: a batch has returned after a success and a failure.
C9_Witness ==
    BatchReturned /\ Successes > 0 /\ FailureMessages # <<>>

\* C10: in a batch, kill_process is called only for known pids of the scanned
\* list, in strictly ascending order (so once per pid at most), a call starts
\* only after the call before it has returned, and when the batch returns
\* every known pid of the list has had its call, failures or not.
C10_SerialAscendingOncePerPid ==
    InBatch =>
        /\ \A i \in 1..Len(KillCalls) : KillCalls[i].pid \in ScannedPids
        /\ \A i \in 1..(Len(KillCalls) - 1) : KillCalls[i].pid < KillCalls[i + 1].pid
        /\ \A i, j \in 1..Len(trace) :
              i < j /\ IsCall(trace[i], "kill_process") /\ IsCall(trace[j], "kill_process") =>
                  \E k \in (i + 1)..(j - 1) :
                      IsReturn(trace[k], "kill_process") /\ trace[k].pid = trace[i].pid
        /\ BatchReturned /\ KillCalls # <<>> =>
              {KillCalls[i].pid : i \in 1..Len(KillCalls)} = ScannedPids

\* C10 witness: a batch has returned on a host where one pid owns two ports
\* and the port order of the pids is not their order; the first termination
\* failed and a second one was made.
C10_Witness ==
    /\ BatchReturned
    /\ Len(KillCalls) >= 2
    /\ KillReturns[1].result[1] = "Err"
    /\ \E i, j \in 1..Len(scan_open_ports) :
          i < j /\ scan_open_ports[i].pid > scan_open_ports[j].pid /\ scan_open_ports[j].pid > 0
    /\ \E i, j \in 1..Len(scan_open_ports) :
          i # j /\ scan_open_ports[i].pid = scan_open_ports[j].pid /\ scan_open_ports[i].pid > 0

\* ------------------------------------------------------------------------
\* execute_ss_command step by step (specification SpecSs)
\* ------------------------------------------------------------------------

SsCallEvent(flags) == [ev |-> "call", fn |-> "execute_ss_command", flags |-> flags]

SsExecEvent(cmd, flags, outcome) == [ev |-> "exec", cmd |-> cmd, flags |-> flags, outcome |-> outcome]

SsReturnEvent(flags, value) ==
    [ev |-> "return", fn |-> "execute_ss_command", flags |-> flags, result |-> value]

\* a caller calls execute_ss_command(flags)
SsCall ==
    /\ es_pc = "idle"
    /\ \E flags \in {"-tlnpH", "-ulnpH"} :
          /\ es_flags' = flags
          /\ trace' = <<SsCallEvent(flags)>>
    /\ es_pc' = "sudo"
    /\ log' = <<>>
    /\ UNCHANGED <<hostVars, scanVars, trayVars, pureVars,
                   kp_pc, kp_pid, ka_pc, unique_pids, pid_index, killed_count, errors>>

\* `sudo -n ss <flags>` has run: its output is returned when it succeeded,
\* otherwise the warning is logged and the fallback follows
SsRunSudo ==
    /\ es_pc = "sudo"
    /\ LET output == sudo_ss[es_flags]
           exec == SsExecEvent("sudo", es_flags, output)
       IN  IF output.started /\ output.success
           THEN /\ trace' = trace \o <<exec, SsReturnEvent(es_flags, output.stdout)>>
                /\ es_pc' = "idle"
                /\ log' = log
           ELSE /\ trace' = Append(trace, exec)
                /\ es_pc' = "fallback"
                /\ log' = Append(log, <<"warn", "ss sin sudo">>)
    /\ UNCHANGED <<hostVars, scanVars, trayVars, pureVars, es_flags,
                   kp_pc, kp_pid, ka_pc, unique_pids, pid_index, killed_count, errors>>

\* `ss <flags>` has run: None when it could not be started, otherwise its
\* standard output, whatever its exit status
SsRunFallback ==
    /\ es_pc = "fallback"
    /\ LET fallback == ss[es_flags]
           exec == SsExecEvent("ss", es_flags, fallback)
           value == IF ~fallback.started THEN None ELSE fallback.stdout
       IN  trace' = trace \o <<exec, SsReturnEvent(es_flags, value)>>
    /\ es_pc' = "idle"
    /\ UNCHANGED <<hostVars, scanVars, trayVars, pureVars, es_flags, log,
                   kp_pc, kp_pid, ka_pc, unique_pids, pid_index, killed_count, errors>>

\* what a run of ss may print: nothing, a line, bytes that are not UTF-8
SsTexts == {Some(<<>>), Some(Unlines(<<SsTcpLines[2]>>)), None}

\* the ways a run of `sudo -n ss` or of `ss` may end
SsCommandOutcomes ==
    {Outcome(FALSE, FALSE, None, <<>>)}
        \cup {Outcome(TRUE, success, text, <<>>) : success \in BOOLEAN, text \in SsTexts}

\* for the udp flag: not started, failed without output, succeeded with a line
SsUdpOutcomes ==
    {Outcome(FALSE, FALSE, None, <<>>),
     Outcome(TRUE, FALSE, Some(<<>>), <<>>),
     Outcome(TRUE, TRUE, Some(Unlines(<<SsUdpLines[1]>>)), <<>>)}

InitSs ==
    /\ \E t \in SsCommandOutcomes, u \in SsUdpOutcomes :
          sudo_ss = [f \in {"-tlnpH", "-ulnpH"} |-> IF f = "-tlnpH" THEN t ELSE u]
    /\ \E t \in SsCommandOutcomes, u \in SsUdpOutcomes :
          ss = [f \in {"-tlnpH", "-ulnpH"} |-> IF f = "-tlnpH" THEN t ELSE u]
    /\ proc_net = [path \in {"/proc/net/tcp", "/proc/net/tcp6", "/proc/net/udp", "/proc/net/udp6"} |-> None]
    /\ proc_dir = None
    /\ pc = "idle"
    /\ ports_map = <<>>
    /\ ss_records = <<>>
    /\ proc_ports = <<>>
    /\ ports = <<>>
    /\ log = <<>>
    /\ KillIdle
    /\ SsIdle
    /\ TrayIdle
    /\ PureIdle

NextSs ==
    \/ SsCall
    \/ SsRunSudo
    \/ SsRunFallback

SpecSs == InitSs /\ [][NextSs]_vars

\* C11: execute_ss_command runs `sudo -n ss` first; after any failure of it
\* (not started, or a failure status) it runs the plain `ss`; it returns None
\* only after the plain `ss` was tried; and a text it returns from the plain
\* `ss` comes from a run that ended with a success status.
C11_FallbackThenNone ==
    trace # <<>> /\ trace[1].ev = "call" /\ trace[1].fn = "execute_ss_command" =>
        /\ Len(trace) >= 2 => trace[2].ev = "exec" /\ trace[2].cmd = "sudo"
        /\ Len(trace) >= 3 =>
              IF trace[2].outcome.started /\ trace[2].outcome.success
              THEN trace[3].ev = "return"
              ELSE trace[3].ev = "exec" /\ trace[3].cmd = "ss"
        /\ trace[Len(trace)].ev = "return" =>
              /\ trace[Len(trace)].result = None =>
                    \E i \in 1..Len(trace) : trace[i].ev = "exec" /\ trace[i].cmd = "ss"
              /\ trace[Len(trace)].result # None /\ trace[Len(trace) - 1].cmd = "ss" =>
                    trace[Len(trace) - 1].outcome.success

\* ------------------------------------------------------------------------
\* The scan on hosts whose sources fail (specification SpecFail)
\* ------------------------------------------------------------------------

\* the ways the ss source of the tcp sockets may come out, as the outcomes of
\* <<`sudo -n ss`, `ss`>>: sudo works; sudo is refused and ss works; neither
\* can be started; sudo is refused and ss fails without output; sudo works
\* but prints bytes that are not UTF-8
SsTcpSources ==
    {<<Outcome(TRUE, TRUE, Some(Unlines(<<SsTcpLines[1]>>)), <<>>), Outcome(FALSE, FALSE, None, <<>>)>>,
     <<Outcome(TRUE, FALSE, Some(<<>>), <<>>), Outcome(TRUE, TRUE, Some(Unlines(<<SsTcpLines[2]>>)), <<>>)>>,
     <<Outcome(FALSE, FALSE, None, <<>>), Outcome(FALSE, FALSE, None, <<>>)>>,
     <<Outcome(TRUE, FALSE, Some(<<>>), <<>>), Outcome(TRUE, FALSE, Some(<<>>), <<>>)>>,
     <<Outcome(TRUE, TRUE, None, <<>>), Outcome(FALSE, FALSE, None, <<>>)>>}

\* the same for the udp sockets: sudo works; neither can be started
SsUdpSources ==
    {<<Outcome(TRUE, TRUE, Some(Unlines(<<SsUdpLines[1]>>)), <<>>), Outcome(FALSE, FALSE, None, <<>>)>>,
     <<Outcome(FALSE, FALSE, None, <<>>), Outcome(FALSE, FALSE, None, <<>>)>>}

\* what each /proc/net file holds when it can be read
ReadableProcNet ==
    [path \in {"/proc/net/tcp", "/proc/net/tcp6", "/proc/net/udp", "/proc/net/udp6"} |->
        IF path = "/proc/net/tcp" THEN ProcFile(<<ProcTcpLines[1], ProcTcpLines[3]>>)
        ELSE IF path = "/proc/net/udp" THEN ProcFile(<<ProcUdpLines[1]>>)
        ELSE ProcFile(<<>>)]

InitFail ==
    /\ \E t \in SsTcpSources, u \in SsUdpSources :
          /\ sudo_ss = [f \in {"-tlnpH", "-ulnpH"} |-> IF f = "-tlnpH" THEN t[1] ELSE u[1]]
          /\ ss = [f \in {"-tlnpH", "-ulnpH"} |-> IF f = "-tlnpH" THEN t[2] ELSE u[2]]
    /\ \E unreadable \in SUBSET DOMAIN ReadableProcNet :
          proc_net = [path \in DOMAIN ReadableProcNet |->
                         IF path \in unreadable THEN None ELSE ReadableProcNet[path]]
    /\ proc_dir \in {None, Some(<<ProcNginx, ProcNode>>)}
    /\ pc = "ss"
    /\ ports_map = <<>>
    /\ ss_records = <<>>
    /\ proc_ports = <<>>
    /\ ports = <<>>
    /\ log = <<>>
    /\ KillIdle
    /\ SsIdle
    /\ TrayIdle
    /\ PureIdle

SpecFail == InitFail /\ [][Next]_vars

\* the ss source of the flag gave output: `sudo -n ss` succeeded with text,
\* or it failed and the plain `ss` ran and printed text
SsGaveOutput(flags) ==
    IF sudo_ss[flags].started /\ sudo_ss[flags].success
    THEN sudo_ss[flags].stdout # None
    ELSE ss[flags].started /\ ss[flags].stdout # None

\* the records of the ss source of the flag, none when it gave no output
SsSourceRecords(flags, protocol) ==
    IF ~SsGaveOutput(flags) THEN <<>>
    ELSE parse_ss_output(Unwrap(IF sudo_ss[flags].started /\ sudo_ss[flags].success
                                THEN sudo_ss[flags].stdout ELSE ss[flags].stdout), protocol)

\* the records of a /proc/net file, none when it cannot be read
ProcSourceRecords(path, protocol) ==
    IF proc_net[path] = None THEN <<>>
    ELSE parse_proc_net_file(Unwrap(proc_net[path]), protocol, build_inode_pid_map(proc_dir))

filter_ports_Unfiltered(list, filter) == list


\* filter_ports(ports, filter), filter one of "All", "Tcp", "Udp"
filter_ports(list, filter) ==
    IF filter = "All" THEN list
    ELSE IF filter = "Tcp" THEN SelectSeq(list, LAMBDA p : p.protocol = "tcp")
    ELSE SelectSeq(list, LAMBDA p : p.protocol = "udp")

\* usize::div_ceil: the quotient, one more when there is a remainder
div_ceil(a, b) == IF a % b > 0 THEN (a \div b) + 1 ELSE a \div b

\* total_pages without the early return
total_pages_Unguarded(total_items, per_page) ==
    IF per_page = 0 THEN 0 ELSE div_ceil(total_items, per_page)

total_pages(total_items, per_page) ==
    IF total_items = 0 \/ per_page = 0 THEN 1
    ELSE div_ceil(total_items, per_page)

\* a usize (64 bits) as four 16-bit limbs, most significant first
Usize(n) == <<0, 0, n \div Limb, n % Limb>>

\* the usize is below 2^31, so that it is an index a list can have here
IsSmall(limbs) == limbs[1] = 0 /\ limbs[2] = 0 /\ limbs[3] < 128 * 256

\* what a call gives: a value, or a panic of the thread
Returned(v) == [panic |-> FALSE, value |-> v]

Panicked == [panic |-> TRUE, value |-> <<>>]

\* get_page(ports, page, page_size), page as limbs. `page * page_size` is a
\* usize multiplication: when it overflows, a build with overflow checks
\* panics and a build without them goes on with the product modulo 2^64.
get_page(list, page, per_page, overflow_checks) ==
    IF per_page = 0 THEN Returned(<<>>)
    ELSE LET product == MulAdd(page, per_page, 0)
             start == product[2]
         IN  IF product[1] > 0 /\ overflow_checks THEN Panicked
             ELSE IF ~IsSmall(start) \/ ValueOf(start) >= Len(list) THEN Returned(<<>>)
             ELSE LET end == Min(ValueOf(start) + per_page, Len(list))
                  IN  Returned(Slice(list, ValueOf(start), end))

\* ------------------------------------------------------------------------
\* total_pages and get_page applied to arguments (specification SpecPages)
\* ------------------------------------------------------------------------

\* the most items, the largest page size and the highest small page index
MaxItems == 25

MaxPageSize == 10

MaxPage == 3

\* the longest list given to get_page
MaxListLen == 4

\* a list of n records, ports 8001.. in order, tcp and udp alternating
SampleList(n) ==
    [i \in 1..n |-> PortInfo(IF i % 2 = 1 THEN "tcp" ELSE "udp", 8000 + i,
                             <<"0", ".", "0", ".", "0", ".", "0">>, 0, Desconocido)]

\* page indexes: the small ones, and 2^32, 2^63, 2^64 - 1
PageIndexes ==
    {Usize(n) : n \in 0..MaxPage}
        \cup {<<0, 1, 0, 0>>, <<128 * 256, 0, 0, 0>>, <<Limb - 1, Limb - 1, Limb - 1, Limb - 1>>}

PageCalls ==
    {[fn |-> "total_pages", args |-> <<n, size>>] : n \in 0..MaxItems, size \in 0..MaxPageSize}
        \cup {[fn |-> "get_page", args |-> <<SampleList(n), page, size>>] :
                 n \in 0..MaxListLen, page \in PageIndexes, size \in 0..MaxPageSize}

\* the state in which the pure function of the call is applied: nothing else runs
PureInit(calls) ==
    /\ fn_call \in calls
    /\ fn_result = None
    /\ sudo_ss = [f \in {"-tlnpH", "-ulnpH"} |-> Outcome(FALSE, FALSE, None, <<>>)]
    /\ ss = [f \in {"-tlnpH", "-ulnpH"} |-> Outcome(FALSE, FALSE, None, <<>>)]
    /\ proc_net = [path \in {"/proc/net/tcp", "/proc/net/tcp6", "/proc/net/udp", "/proc/net/udp6"} |-> None]
    /\ proc_dir = None
    /\ pc = "idle"
    /\ ports_map = <<>>
    /\ ss_records = <<>>
    /\ proc_ports = <<>>
    /\ ports = <<>>
    /\ log = <<>>
    /\ KillIdle
    /\ SsIdle
    /\ TrayIdle

\* the call returns v
PureReturn(v) ==
    /\ fn_result' = Some(v)
    /\ UNCHANGED <<fn_call, hostVars, scanVars, killVars, ssVars, trayVars, log>>

ApplyTotalPages ==
    /\ fn_result = None /\ fn_call.fn = "total_pages"
    /\ PureReturn(total_pages(fn_call.args[1], fn_call.args[2]))

\* the build has overflow checks (debug) or not (release)
ApplyGetPage ==
    /\ fn_result = None /\ fn_call.fn = "get_page"
    /\ \E overflow_checks \in BOOLEAN :
          PureReturn(get_page(fn_call.args[1], fn_call.args[2], fn_call.args[3], overflow_checks))

InitPages == PureInit(PageCalls)

NextPages == ApplyTotalPages \/ ApplyGetPage

SpecPages == InitPages /\ [][NextPages]_vars

\* the call of fn has returned
Applied(fn) == fn_call # <<>> /\ fn_call.fn = fn /\ fn_result # None

\* C14: total_pages(0, N) = 1; for total_items > 0 and page_size > 0 the
\* result is the least number of pages of page_size items that hold
\* total_items items; total_pages(25, 10) = 3; the result is never below 1,
\* page_size = 0 included.
C14_TotalPagesCeil ==
    Applied("total_pages") =>
        LET n == fn_call.args[1]
            size == fn_call.args[2]
            pages == Unwrap(fn_result)
        IN  /\ pages >= 1
            /\ n = 0 => pages = 1
            /\ n > 0 /\ size > 0 => pages * size >= n /\ (pages - 1) * size < n
            /\ n = 25 /\ size = 10 => pages = 3

\* C14 witness: total_pages(25, 10) has returned.
C14_Witness ==
    Applied("total_pages") /\ fn_call.args = <<25, 10>>

\* C15: for page size s > 0, get_page returns the elements at the positions
\* p*s .. min(p*s + s, len) - 1 in their order; it returns the empty list
\* when p*s >= len and when s = 0; it never panics.
C15_PageIsTheSlice ==
    Applied("get_page") =>
        LET list == fn_call.args[1]
            page == fn_call.args[2]
            size == fn_call.args[3]
            out == Unwrap(fn_result)
        IN  /\ ~out.panic
            /\ size = 0 => out.value = <<>>
            /\ size > 0 /\ ~IsSmall(page) => out.value = <<>>
            /\ size > 0 /\ IsSmall(page) =>
                  LET first == ValueOf(page) * size
                      last == Min(first + size, Len(list))
                  IN  out.value = [i \in 1..(IF first >= Len(list) THEN 0 ELSE last - first) |->
                                      list[first + i]]

\* ------------------------------------------------------------------------
\* parse_single_ss_line applied to lines (specification SpecSsLine)
\* ------------------------------------------------------------------------

\* the most fields of a line before its users section
MaxFields == 2

\* fields a line of ss is made of: with and without the look of an address, with port texts of every kind
SsFields ==
    <<
      \* LISTEN
      <<"L", "I", "S", "T", "E", "N">>,
      \* 0.0.0.0:8080
      <<"0", ".", "0", ".", "0", ".", "0", ":", "8", "0", "8", "0">>,
      \* *:*
      <<"*", ":", "*">>,
      \* [::]:22
      <<"[", ":", ":", "]", ":", "2", "2">>,
      \* 127.0.0.1:0
      <<"1", "2", "7", ".", "0", ".", "0", ".", "1", ":", "0">>,
      \* 10.0.0.1:65536
      <<"1", "0", ".", "0", ".", "0", ".", "1", ":", "6", "5", "5", "3", "6">>,
      \* 1.2.3.4:http
      <<"1", ".", "2", ".", "3", ".", "4", ":", "h", "t", "t", "p">>,
      \* *:+80
      <<"*", ":", "+", "8", "0">>,
      \* 1.2.3.4
      <<"1", ".", "2", ".", "3", ".", "4">>,
      \* 127.0.0.53%lo:0053
      <<"1", "2", "7", ".", "0", ".", "0", ".", "5", "3", "%", "l", "o", ":", "0", "0", "5", "3">>,
      \* host:80
      <<"h", "o", "s", "t", ":", "8", "0">>
    >>

\* process names, as the kernel lets them be: plain, with a space, with the text pid=
ProcessNames ==
    <<
      \* node
      <<"n", "o", "d", "e">>,
      \* Web Content
      <<"W", "e", "b", " ", "C", "o", "n", "t", "e", "n", "t">>,
      \* pid=7
      <<"p", "i", "d", "=", "7">>
    >>

\* the pids of the users sections
UsersPids == {1, 12345}

\* users:(("name",pid=N,fd=3))
UsersSection(name, pid) ==
    UsersMarker \o <<"\"">> \o name \o <<"\"", ",">> \o PidMarker \o ToDecimal(pid)
        \o <<",", "f", "d", "=", "3", ")", ")">>

\* what follows the fields: no users section, or the one of a name and a pid
UsersChoices == {None} \cup {Some(<<name, pid>>) : name \in Range(ProcessNames), pid \in UsersPids}

\* the line made of the fields and of the users section, separated by spaces
SsLine(fields, users) ==
    Join(fields \o (IF users = None THEN <<>>
                    ELSE <<UsersSection(Unwrap(users)[1], Unwrap(users)[2])>>), <<" ">>)

\* the calls: every line of at most MaxFields fields, with each users choice
\* and each protocol; users records what the line was made of
SsLineCalls ==
    {[fn |-> "parse_single_ss_line", args |-> <<SsLine(fields, users), protocol>>, users |-> users] :
        fields \in SeqsUpTo(Range(SsFields), MaxFields), users \in UsersChoices,
        protocol \in {"tcp", "udp"}}
    \cup {[fn |-> "parse_single_ss_line", args |-> <<blank, "tcp">>, users |-> None] :
             blank \in {<<" ", " ", " ">>, <<"\t">>}}
    \cup {[fn |-> "parse_single_ss_line",
           args |-> <<<<" ", " ">> \o SsLine(<<SsFields[3], SsFields[2]>>, None) \o <<" ", "\n">>, "tcp">>,
           users |-> None]}

ApplyParseSingleSsLine ==
    /\ fn_result = None /\ fn_call.fn = "parse_single_ss_line"
    /\ PureReturn(parse_single_ss_line(fn_call.args[1], fn_call.args[2]))

InitSsLine == PureInit(SsLineCalls)

NextSsLine == ApplyParseSingleSsLine

SpecSsLine == InitSsLine /\ [][NextSsLine]_vars

\* the field has the look of an address: a '.' or a '[' or "::" in it, or a
\* '*' at its start
AddressLike(field) ==
    \/ \E i \in 1..Len(field) : field[i] \in {".", "["}
    \/ \E i \in 1..(Len(field) - 1) : field[i] = ":" /\ field[i + 1] = ":"
    \/ field # <<>> /\ field[1] = "*"

\* the text after the last ':' of a field that has one
AfterLastColon(field) ==
    LET last == CHOOSE i \in 1..Len(field) :
                    field[i] = ":" /\ \A j \in (i + 1)..Len(field) : field[j] # ":"
    IN  SubSeq(field, last + 1, Len(field))

\* the number a text of digits denotes, 65536 standing for all that is above 65535
RECURSIVE DigitsValue(_)
DigitsValue(digits) ==
    IF digits = <<>> THEN 0
    ELSE LET v == DigitsValue(SubSeq(digits, 1, Len(digits) - 1)) * 10
                     + (CHOOSE d \in 0..9 : DecChars[d + 1] = digits[Len(digits)])
         IN  IF v > 65535 THEN 65536 ELSE v

\* the text is a decimal number (digits, a '+' sign allowed before them) in 1..65535
DecimalPort(text) ==
    LET digits == IF Len(text) > 1 /\ text[1] = "+" THEN Tail(text) ELSE text
    IN  /\ digits # <<>>
        /\ \A i \in 1..Len(digits) : digits[i] \in AsciiDigits
        /\ DigitsValue(digits) \in 1..65535

\* the field is a valid address:port token
ValidField(field) ==
    /\ AddressLike(field)
    /\ \E i \in 1..Len(field) : field[i] = ":"
    /\ DecimalPort(AfterLastColon(field))

\* C16: a line gives a record if and only if one of its whitespace-separated
\* fields is a valid address:port token (the look of an address, and after the
\* last ':' a decimal number in 1..65535); the record then has the port and
\* the address of the first such field. Empty and blank lines give none.
C16_RecordOnlyFromValidField ==
    Applied("parse_single_ss_line") =>
        LET fields == SplitWhitespace(fn_call.args[1])
            valid == {i \in 1..Len(fields) : ValidField(fields[i])}
            record == Unwrap(fn_result)
        IN  /\ Unwrap(fn_result) = None <=> valid = {}
            /\ valid # {} =>
                  LET field == fields[CHOOSE i \in valid : \A j \in valid : i <= j]
                      text == AfterLastColon(field)
                      digits == IF text[1] = "+" THEN Tail(text) ELSE text
                  IN  /\ Unwrap(record).port = DigitsValue(digits)
                      /\ Unwrap(record).local_address
                            = clean_address(SubSeq(field, 1, Len(field) - Len(text) - 1))
                      /\ Unwrap(record).protocol = fn_call.args[2]

\* C16 witness: a line whose first field with the look of an address has the
\* port 0 and whose second one is valid has given the record of the second.
C16_Witness ==
    /\ Applied("parse_single_ss_line")
    /\ SplitWhitespace(fn_call.args[1]) = <<SsFields[5], SsFields[2]>>
    /\ Unwrap(fn_result) # None
    /\ Unwrap(Unwrap(fn_result)).port = 8080

\* C17: a line with a valid address:port and the section
\* users:(("name",pid=N,fd=K)) gives a record owned by (N, name), whatever the
\* name; a line with a valid address:port and no users section gives a record
\* with pid 0 and the placeholder name.
C17_OwnerFromUsersSection ==
    Applied("parse_single_ss_line") /\ Unwrap(fn_result) # None =>
        LET record == Unwrap(Unwrap(fn_result))
        IN  IF fn_call.users = None
            THEN record.pid = 0 /\ record.process_name = Desconocido
            ELSE /\ record.pid = Unwrap(fn_call.users)[2]
                 /\ record.process_name = Unwrap(fn_call.users)[1]

\* ------------------------------------------------------------------------
\* the parsers of /proc/net applied to files and addresses (specification
\* SpecProcNet)
\* ------------------------------------------------------------------------

\* the most lines of a /proc/net file, its first line included
MaxProcFileLines == 3

\* lines of a /proc/net file as their tokens: the header, sockets in the states 0A, 01, 07 and 0a, one with port 0, one of 9 tokens, one whose local address has no port, an empty line
ProcFileLines ==
    <<
      \* sl local_address rem_address st tx_queue rx_queue tr tm->when retrnsmt uid timeout inode
      <<<<"s", "l">>, <<"l", "o", "c", "a", "l", "_", "a", "d", "d", "r", "e", "s", "s">>, <<"r", "e", "m", "_", "a", "d", "d", "r", "e", "s", "s">>, <<"s", "t">>, <<"t", "x", "_", "q", "u", "e", "u", "e">>, <<"r", "x", "_", "q", "u", "e", "u", "e">>, <<"t", "r">>, <<"t", "m", "-", ">", "w", "h", "e", "n">>, <<"r", "e", "t", "r", "n", "s", "m", "t">>, <<"u", "i", "d">>, <<"t", "i", "m", "e", "o", "u", "t">>, <<"i", "n", "o", "d", "e">>>>,
      \* 0: 00000000:0BB8 00000000:0000 0A 00000000:00000000 00:00000000 00000000 0 0 100
      <<<<"0", ":">>, <<"0", "0", "0", "0", "0", "0", "0", "0", ":", "0", "B", "B", "8">>, <<"0", "0", "0", "0", "0", "0", "0", "0", ":", "0", "0", "0", "0">>, <<"0", "A">>, <<"0", "0", "0", "0", "0", "0", "0", "0", ":", "0", "0", "0", "0", "0", "0", "0", "0">>, <<"0", "0", ":", "0", "0", "0", "0", "0", "0", "0", "0">>, <<"0", "0", "0", "0", "0", "0", "0", "0">>, <<"0">>, <<"0">>, <<"1", "0", "0">>>>,
      \* 1: 0100007F:1538 0100007F:D431 01 00000000:00000000 00:00000000 00000000 0 0 200
      <<<<"1", ":">>, <<"0", "1", "0", "0", "0", "0", "7", "F", ":", "1", "5", "3", "8">>, <<"0", "1", "0", "0", "0", "0", "7", "F", ":", "D", "4", "3", "1">>, <<"0", "1">>, <<"0", "0", "0", "0", "0", "0", "0", "0", ":", "0", "0", "0", "0", "0", "0", "0", "0">>, <<"0", "0", ":", "0", "0", "0", "0", "0", "0", "0", "0">>, <<"0", "0", "0", "0", "0", "0", "0", "0">>, <<"0">>, <<"0">>, <<"2", "0", "0">>>>,
      \* 2: 00000000:0035 00000000:0000 07 00000000:00000000 00:00000000 00000000 0 0 0
      <<<<"2", ":">>, <<"0", "0", "0", "0", "0", "0", "0", "0", ":", "0", "0", "3", "5">>, <<"0", "0", "0", "0", "0", "0", "0", "0", ":", "0", "0", "0", "0">>, <<"0", "7">>, <<"0", "0", "0", "0", "0", "0", "0", "0", ":", "0", "0", "0", "0", "0", "0", "0", "0">>, <<"0", "0", ":", "0", "0", "0", "0", "0", "0", "0", "0">>, <<"0", "0", "0", "0", "0", "0", "0", "0">>, <<"0">>, <<"0">>, <<"0">>>>,
      \* 3: 00000000:0000 00000000:0000 0A 00000000:00000000 00:00000000 00000000 0 0 100
      <<<<"3", ":">>, <<"0", "0", "0", "0", "0", "0", "0", "0", ":", "0", "0", "0", "0">>, <<"0", "0", "0", "0", "0", "0", "0", "0", ":", "0", "0", "0", "0">>, <<"0", "A">>, <<"0", "0", "0", "0", "0", "0", "0", "0", ":", "0", "0", "0", "0", "0", "0", "0", "0">>, <<"0", "0", ":", "0", "0", "0", "0", "0", "0", "0", "0">>, <<"0", "0", "0", "0", "0", "0", "0", "0">>, <<"0">>, <<"0">>, <<"1", "0", "0">>>>,
      \* 4: 00000000:1F90 00000000:0000 0A 00000000:00000000 00:00000000 00000000 0 0
      <<<<"4", ":">>, <<"0", "0", "0", "0", "0", "0", "0", "0", ":", "1", "F", "9", "0">>, <<"0", "0", "0", "0", "0", "0", "0", "0", ":", "0", "0", "0", "0">>, <<"0", "A">>, <<"0", "0", "0", "0", "0", "0", "0", "0", ":", "0", "0", "0", "0", "0", "0", "0", "0">>, <<"0", "0", ":", "0", "0", "0", "0", "0", "0", "0", "0">>, <<"0", "0", "0", "0", "0", "0", "0", "0">>, <<"0">>, <<"0">>>>,
      \* 5: 0100007F 00000000:0000 0A 00000000:00000000 00:00000000 00000000 0 0 100
      <<<<"5", ":">>, <<"0", "1", "0", "0", "0", "0", "7", "F">>, <<"0", "0", "0", "0", "0", "0", "0", "0", ":", "0", "0", "0", "0">>, <<"0", "A">>, <<"0", "0", "0", "0", "0", "0", "0", "0", ":", "0", "0", "0", "0", "0", "0", "0", "0">>, <<"0", "0", ":", "0", "0", "0", "0", "0", "0", "0", "0">>, <<"0", "0", "0", "0", "0", "0", "0", "0">>, <<"0">>, <<"0">>, <<"1", "0", "0">>>>,
      \* 6: 0100007F:0050 00000000:0000 0a 00000000:00000000 00:00000000 00000000 0 0 100
      <<<<"6", ":">>, <<"0", "1", "0", "0", "0", "0", "7", "F", ":", "0", "0", "5", "0">>, <<"0", "0", "0", "0", "0", "0", "0", "0", ":", "0", "0", "0", "0">>, <<"0", "a">>, <<"0", "0", "0", "0", "0", "0", "0", "0", ":", "0", "0", "0", "0", "0", "0", "0", "0">>, <<"0", "0", ":", "0", "0", "0", "0", "0", "0", "0", "0">>, <<"0", "0", "0", "0", "0", "0", "0", "0">>, <<"0">>, <<"0">>, <<"1", "0", "0">>>>,
      \* (empty)
      <<>>
    >>

\* the maps from inode to <<pid, process name>>: none known, and nginx holding
\* the socket 100
InodeMaps == {<<>>, 100 :> <<77, <<"n", "g", "i", "n", "x">>>>}

\* the text of a line: its tokens separated by spaces
LineText(tokens) == Join(tokens, <<" ">>)

\* the text of a file: each line followed by a line feed
FileText(lines) == Unlines([i \in 1..Len(lines) |-> LineText(lines[i])])

\* the calls: every file of at most MaxProcFileLines lines, with each protocol
\* and each inode map; lines records what the file was made of
ProcNetFileCalls ==
    {[fn |-> "parse_proc_net_file", args |-> <<FileText(lines), protocol, inode_to_pid>>, lines |-> lines] :
        lines \in SeqsUpTo(Range(ProcFileLines), MaxProcFileLines),
        protocol \in {"tcp", "udp"}, inode_to_pid \in InodeMaps}

\* bytes of an address as <<two hex digits, value>>
HexBytes ==
    {<<<<"0", "0">>, 0>>, <<<<"0", "1">>, 1>>, <<<<"7", "F">>, 127>>, <<<<"a", "8">>, 168>>,
     <<<<"F", "F">>, 255>>}

\* ports as <<four hex digits, value>>
HexPorts ==
    {<<<<"0", "B", "B", "8">>, 3000>>, <<<<"1", "5", "3", "8">>, 5432>>,
     <<<<"F", "F", "F", "F">>, 65535>>}

\* inputs that are not an 8-hex-digit address and a 4-hex-digit port: without ':' or with two, with an address of another length or with other characters, with a port that is no u16, and IPv6 addresses
OddHexAddresses ==
    <<
      \* 00000000
      <<"0", "0", "0", "0", "0", "0", "0", "0">>,
      \* 00000000:0BB8:00
      <<"0", "0", "0", "0", "0", "0", "0", "0", ":", "0", "B", "B", "8", ":", "0", "0">>,
      \* :
      <<":">>,
      \* (empty)
      <<>>,
      \* 0000:0BB8
      <<"0", "0", "0", "0", ":", "0", "B", "B", "8">>,
      \* 000000000:0BB8
      <<"0", "0", "0", "0", "0", "0", "0", "0", "0", ":", "0", "B", "B", "8">>,
      \* G0000000:0BB8
      <<"G", "0", "0", "0", "0", "0", "0", "0", ":", "0", "B", "B", "8">>,
      \* +1234567:0BB8
      <<"+", "1", "2", "3", "4", "5", "6", "7", ":", "0", "B", "B", "8">>,
      \* 00000000:GGGG
      <<"0", "0", "0", "0", "0", "0", "0", "0", ":", "G", "G", "G", "G">>,
      \* 00000000:10000
      <<"0", "0", "0", "0", "0", "0", "0", "0", ":", "1", "0", "0", "0", "0">>,
      \* 00000000:
      <<"0", "0", "0", "0", "0", "0", "0", "0", ":">>,
      \* 00000000000000000000000000000000:0BB8
      <<"0", "0", "0", "0", "0", "0", "0", "0", "0", "0", "0", "0", "0", "0", "0", "0", "0", "0", "0", "0", "0", "0", "0", "0", "0", "0", "0", "0", "0", "0", "0", "0", ":", "0", "B", "B", "8">>,
      \* 00000000000000000000000001000000:0016
      <<"0", "0", "0", "0", "0", "0", "0", "0", "0", "0", "0", "0", "0", "0", "0", "0", "0", "0", "0", "0", "0", "0", "0", "0", "0", "1", "0", "0", "0", "0", "0", "0", ":", "0", "0", "1", "6">>,
      \* 0000000000000000FFFF00000100007F:1F90
      <<"0", "0", "0", "0", "0", "0", "0", "0", "0", "0", "0", "0", "0", "0", "0", "0", "F", "F", "F", "F", "0", "0", "0", "0", "0", "1", "0", "0", "0", "0", "7", "F", ":", "1", "F", "9", "0">>,
      \* ZZZZZZZZZZZZZZZZZZZZZZZZZZZZZZZZ:0BB8
      <<"Z", "Z", "Z", "Z", "Z", "Z", "Z", "Z", "Z", "Z", "Z", "Z", "Z", "Z", "Z", "Z", "Z", "Z", "Z", "Z", "Z", "Z", "Z", "Z", "Z", "Z", "Z", "Z", "Z", "Z", "Z", "Z", ":", "0", "B", "B", "8">>,
      \* 0000000000000000000000000000000:0BB8
      <<"0", "0", "0", "0", "0", "0", "0", "0", "0", "0", "0", "0", "0", "0", "0", "0", "0", "0", "0", "0", "0", "0", "0", "0", "0", "0", "0", "0", "0", "0", "0", ":", "0", "B", "B", "8">>
    >>

\* the calls: every address of four bytes of HexBytes with every port of
\* HexPorts (made_of records the bytes as written and the port), and the odd
\* inputs
HexAddressCalls ==
    {[fn |-> "parse_hex_address",
      args |-> <<b[1][1] \o b[2][1] \o b[3][1] \o b[4][1] \o <<":">> \o port[1]>>,
      made_of |-> Some(<<<<b[1][2], b[2][2], b[3][2], b[4][2]>>, port[2]>>)] :
        b \in [1..4 -> HexBytes], port \in HexPorts}
    \cup {[fn |-> "parse_hex_address", args |-> <<text>>, made_of |-> None] :
             text \in Range(OddHexAddresses)}

ApplyParseProcNetFile ==
    /\ fn_result = None /\ fn_call.fn = "parse_proc_net_file"
    /\ PureReturn(parse_proc_net_file(fn_call.args[1], fn_call.args[2], fn_call.args[3]))

ApplyParseHexAddress ==
    /\ fn_result = None /\ fn_call.fn = "parse_hex_address"
    /\ PureReturn(parse_hex_address(fn_call.args[1]))

InitProcNet == PureInit(ProcNetFileCalls) \/ PureInit(HexAddressCalls)

NextProcNet == ApplyParseProcNetFile \/ ApplyParseHexAddress

SpecProcNet == InitProcNet /\ [][NextProcNet]_vars

\* the line of these tokens is one the claim says gives a record: at least 10
\* tokens, the 4th the code of the protocol, the 2nd decoding to a port that is
\* not 0
Emits(tokens, protocol) ==
    /\ Len(tokens) >= 10
    /\ tokens[4] = (IF protocol = "tcp" THEN <<"0", "A">> ELSE <<"0", "7">>)
    /\ parse_hex_address(tokens[2]) # None
    /\ Unwrap(parse_hex_address(tokens[2]))[2] # 0

\* the lines after the first that give a record, in the order of the file
RECURSIVE EmittingLines(_, _)
EmittingLines(lines, protocol) ==
    IF lines = <<>> THEN <<>>
    ELSE (IF Emits(lines[1], protocol) THEN <<lines[1]>> ELSE <<>>)
         \o EmittingLines(Tail(lines), protocol)

DottedQuad(b1, b2, b3, b4) ==
    ToDecimal(b1) \o <<".">> \o ToDecimal(b2) \o <<".">> \o ToDecimal(b3) \o <<".">> \o ToDecimal(b4)

\* the text is made of n hex digits
IsHexDigits(text, n) == Len(text) = n /\ \A i \in 1..Len(text) : IsHexDigit(text[i])

\* C19: parse_hex_address gives, for an address of 8 hex digits and a port of
\* 4 hex digits, the value of the port and the four bytes of the address in
\* reverse order as a dotted quad ("00000000:0BB8" gives ("0.0.0.0", 3000),
\* "0100007F:1538" gives ("127.0.0.1", 5432)); an input without exactly one
\* ':' or with an address that is neither 8 nor 32 hex digits gives no result.
C19_HexAddressDecoding ==
    Applied("parse_hex_address") =>
        LET text == fn_call.args[1]
            colons == {i \in 1..Len(text) : text[i] = ":"}
            address == SubSeq(text, 1, (CHOOSE i \in colons : TRUE) - 1)
            decoded == Unwrap(fn_result)
        IN  /\ Cardinality(colons) # 1 => decoded = None
            /\ Cardinality(colons) = 1 /\ ~IsHexDigits(address, 8) /\ ~IsHexDigits(address, 32)
                  => decoded = None
            /\ fn_call.made_of # None =>
                  LET b == Unwrap(fn_call.made_of)[1]
                  IN  decoded = Some(<<DottedQuad(b[4], b[3], b[2], b[1]), Unwrap(fn_call.made_of)[2]>>)
            /\ text = <<"0", "0", "0", "0", "0", "0", "0", "0", ":", "0", "B", "B", "8">>
                  => decoded = Some(<<<<"0", ".", "0", ".", "0", ".", "0">>, 3000>>)
            /\ text = <<"0", "1", "0", "0", "0", "0", "7", "F", ":", "1", "5", "3", "8">>
                  => decoded = Some(<<<<"1", "2", "7", ".", "0", ".", "0", ".", "1">>, 5432>>)

\* ------------------------------------------------------------------------
\* the tray: the service thread (menu and callbacks) and the background
\* refresh thread around the shared port list (specifications SpecTray and
\* SpecTrayPages)
\* ------------------------------------------------------------------------

DEFAULT_PAGE_SIZE == 10

\* the sizes of the page size submenu
PageSizes == {5, 10}

\* the filters of the filter submenu
Filters == {"All", "Tcp", "Udp"}

\* what scan_open_ports returns on the host at three moments: nothing open,
\* six ports (two pages of 5), two other ports
ScanResults ==
    <<
      <<>>,
      <<PortInfo("tcp", 22, <<"0", ".", "0", ".", "0", ".", "0">>, 900, <<"s", "s", "h", "d">>),
        PortInfo("udp", 53, <<"1", "2", "7", ".", "0", ".", "0", ".", "5", "3">>, 0, Desconocido),
        PortInfo("tcp", 80, <<"0", ".", "0", ".", "0", ".", "0">>, 77, <<"n", "g", "i", "n", "x">>),
        PortInfo("tcp", 3000, <<"1", "2", "7", ".", "0", ".", "0", ".", "1">>, 12345, <<"n", "o", "d", "e">>),
        PortInfo("udp", 5353, <<"0", ".", "0", ".", "0", ".", "0">>, 0, Desconocido),
        PortInfo("tcp", 8080, <<"[", ":", ":", "]">>, 0, Desconocido)>>,
      <<PortInfo("tcp", 443, <<"0", ".", "0", ".", "0", ".", "0">>, 78, <<"n", "g", "i", "n", "x">>),
        PortInfo("udp", 8080, <<"0", ".", "0", ".", "0", ".", "0">>, 501, <<"d", "n", "s">>)>>
    >>

\* the lengths of the lists of a host with many ports: three pages of 5, and
\* two pages of 5
LongListLen == 11

ShortListLen == 6

\* the first n of the ports 8001, 8002, ..: every third one udp, every fourth
\* one without known owner, the others owned by the pids 101, 102, ..
ManyPorts(n) ==
    [i \in 1..n |->
        PortInfo(IF i % 3 = 0 THEN "udp" ELSE "tcp", 8000 + i, <<"*">>,
                 IF i % 4 = 0 THEN 0 ELSE 100 + i,
                 IF i % 4 = 0 THEN Desconocido ELSE <<"n", "o", "d", "e">>)]

\* what scan_open_ports returns on that host: the long list, or its
\* beginning once the owners of the last ports have ended
PagedScanResults == <<ManyPorts(LongListLen), ManyPorts(ShortListLen)>>

\* Mutex::lock returns when no thread holds the mutex
MutexFree_Ignored(holder) == TRUE

MutexFree(holder) == holder = "none"

\* the page asked for, unclamped
SafePage_Unclamped(page, pages) == page

\* menu: self.current_page.min(if pages > 0 { pages - 1 } else { 0 })
SafePage(page, pages) == Min(page, IF pages > 0 THEN pages - 1 ELSE 0)

\* build_navigation_items: can_go_prev and can_go_next
CanGoPrev(page) == page > 0

CanGoNext(page, pages) == page + 1 < pages

\* the call of kill_port_by_number(port, protocol), which ends the owner of
\* the port with fuser under pkexec
KillPortByNumberEvent(port, protocol) ==
    [ev |-> "call", fn |-> "kill_port_by_number", port |-> port, protocol |-> protocol]

\* the list the scan inside kill_all_port_processes returned
ScanEvent(list) == [ev |-> "scan", fn |-> "scan_open_ports", result |-> list]

\* the calls of kill_process of the loop of kill_all_port_processes
KillCallEvents(pids) == [i \in 1..Len(pids) |-> CallEvent("kill_process", pids[i])]

\* the tray leaves the rest of the state alone
TrayFrame ==
    UNCHANGED <<hostVars, scanVars, ssVars, pureVars, log,
                kp_pc, kp_pid, ka_pc, unique_pids, pid_index, killed_count, errors>>

\* refresh_ports, first statement: the scan, no lock held; the callback of the
\* refresh item starts with it, the callbacks of the kill items reach it after
\* their termination
UiRefreshScan ==
    /\ ui_pc \in {"idle", "killed"}
    /\ \E new_ports \in host_lists :
          /\ ui_new_ports' = new_ports
          /\ scanned' = scanned \cup {new_ports}
          /\ latest_scan' = new_ports
    /\ ui_pc' = "scanned"
    /\ UNCHANGED <<tray_ports, lock_holder, protocol_filter, current_page, page_size,
                   ui_current_ports, rendered, bg_pc, bg_new_ports, host_lists, nav_shown, trace>>
    /\ TrayFrame

\* refresh_ports: self.ports.lock()
UiRefreshLock ==
    /\ ui_pc = "scanned"
    /\ MutexFree(lock_holder)
    /\ lock_holder' = "ui"
    /\ ui_pc' = "store"
    /\ UNCHANGED <<tray_ports, protocol_filter, current_page, page_size, ui_new_ports,
                   ui_current_ports, rendered, bg_pc, bg_new_ports, scanned, host_lists,
                   latest_scan, nav_shown, trace>>
    /\ TrayFrame

\* refresh_ports without its last statement
UiRefreshStore_KeepPage ==
    /\ ui_pc = "store"
    /\ tray_ports' = ui_new_ports
    /\ lock_holder' = "none"
    /\ ui_new_ports' = <<>>
    /\ nav_shown' = Some("other")
    /\ trace' = <<>>
    /\ ui_pc' = "idle"
    /\ UNCHANGED <<protocol_filter, current_page, page_size, ui_current_ports, rendered, bg_pc,
                   bg_new_ports, scanned, host_lists, latest_scan>>
    /\ TrayFrame

\* refresh_ports: *ports = new_ports, the guard dropped, current_page = 0; the
\* callback is over
UiRefreshStore ==
    /\ ui_pc = "store"
    /\ tray_ports' = ui_new_ports
    /\ lock_holder' = "none"
    /\ current_page' = 0
    /\ ui_new_ports' = <<>>
    /\ nav_shown' = Some("other")
    /\ trace' = <<>>
    /\ ui_pc' = "idle"
    /\ UNCHANGED <<protocol_filter, page_size, ui_current_ports, rendered, bg_pc, bg_new_ports,
                   scanned, host_lists, latest_scan>>
    /\ TrayFrame

\* menu, get_filtered_ports: self.ports.lock()
MenuLock ==
    /\ ui_pc = "idle"
    /\ MutexFree(lock_holder)
    /\ lock_holder' = "ui"
    /\ ui_current_ports' = <<>>
    /\ ui_pc' = "clone"
    /\ UNCHANGED <<tray_ports, protocol_filter, current_page, page_size, ui_new_ports, rendered,
                   bg_pc, bg_new_ports, scanned, host_lists, latest_scan, nav_shown, trace>>
    /\ TrayFrame

\* get_filtered_ports: ports.clone() copies the next record of the list
MenuClone ==
    /\ ui_pc = "clone"
    /\ Len(ui_current_ports) < Len(tray_ports)
    /\ ui_current_ports' = Append(ui_current_ports, tray_ports[Len(ui_current_ports) + 1])
    /\ UNCHANGED <<tray_ports, lock_holder, protocol_filter, current_page, page_size, ui_pc,
                   ui_new_ports, rendered, bg_pc, bg_new_ports, scanned, host_lists, latest_scan,
                   nav_shown, trace>>
    /\ TrayFrame

\* get_filtered_ports: the copy is complete, the guard is dropped
MenuUnlock ==
    /\ ui_pc = "clone"
    /\ Len(ui_current_ports) >= Len(tray_ports)
    /\ lock_holder' = "none"
    /\ ui_pc' = "cloned"
    /\ UNCHANGED <<tray_ports, protocol_filter, current_page, page_size, ui_new_ports,
                   ui_current_ports, rendered, bg_pc, bg_new_ports, scanned, host_lists,
                   latest_scan, nav_shown, trace>>
    /\ TrayFrame

\* menu after the copy: filter, count the pages, clamp the page, take the
\* page; the items of the ports and the kill all item are there when total > 0,
\* the navigation items when pages > 1, and the next item keeps the number of
\* pages
MenuRender ==
    /\ ui_pc = "cloned"
    /\ \E overflow_checks \in BOOLEAN :
          LET filtered_ports == filter_ports(ui_current_ports, protocol_filter)
              total == Len(filtered_ports)
              pages == total_pages(total, page_size)
              safe_page == SafePage(current_page, pages)
              page_ports == get_page(filtered_ports, Usize(safe_page), page_size, overflow_checks)
          IN  rendered' = Some([current_ports |-> ui_current_ports,
                                protocol_filter |-> protocol_filter,
                                page_size |-> page_size,
                                filtered_ports |-> filtered_ports,
                                total |-> total,
                                pages |-> pages,
                                safe_page |-> safe_page,
                                page_ports |-> IF total = 0 THEN <<>> ELSE page_ports.value,
                                prev_enabled |-> pages > 1 /\ CanGoPrev(safe_page),
                                next_enabled |-> pages > 1 /\ CanGoNext(safe_page, pages)])
    /\ ui_current_ports' = <<>>
    /\ nav_shown' = None
    /\ ui_pc' = "idle"
    /\ UNCHANGED <<tray_ports, lock_holder, protocol_filter, current_page, page_size,
                   ui_new_ports, bg_pc, bg_new_ports, scanned, host_lists, latest_scan, trace>>
    /\ TrayFrame

\* the callback of an item of the filter submenu
SetFilter(filter) ==
    /\ ui_pc = "idle"
    /\ rendered # None
    /\ protocol_filter' = filter
    /\ current_page' = 0
    /\ nav_shown' = Some("other")
    /\ UNCHANGED <<tray_ports, lock_holder, page_size, ui_pc, ui_new_ports, ui_current_ports,
                   rendered, bg_pc, bg_new_ports, scanned, host_lists, latest_scan, trace>>
    /\ TrayFrame

\* the callback of an item of the page size submenu
SetPageSize(size) ==
    /\ ui_pc = "idle"
    /\ rendered # None
    /\ page_size' = size
    /\ current_page' = 0
    /\ nav_shown' = Some("other")
    /\ UNCHANGED <<tray_ports, lock_holder, protocol_filter, ui_pc, ui_new_ports,
                   ui_current_ports, rendered, bg_pc, bg_new_ports, scanned, host_lists,
                   latest_scan, trace>>
    /\ TrayFrame

\* what the callbacks have done since the last menu(): nothing (None), only
\* the activation of that navigation item, shown enabled, or something else
Activated(item, enabled) ==
    IF nav_shown = None /\ enabled THEN Some(item) ELSE Some("other")

\* the callback of the item of the previous page, present when the menu
\* built has more than one page
NavPrev ==
    /\ ui_pc = "idle"
    /\ rendered # None /\ Unwrap(rendered).pages > 1
    /\ current_page' = IF current_page > 0 THEN current_page - 1 ELSE current_page
    /\ nav_shown' = Activated("prev", Unwrap(rendered).prev_enabled)
    /\ UNCHANGED <<tray_ports, lock_holder, protocol_filter, page_size, ui_pc, ui_new_ports,
                   ui_current_ports, rendered, bg_pc, bg_new_ports, scanned, host_lists,
                   latest_scan, trace>>
    /\ TrayFrame

\* the callback of the item of the next page, which holds the number of pages
\* of the menu built
NavNext ==
    /\ ui_pc = "idle"
    /\ rendered # None /\ Unwrap(rendered).pages > 1
    /\ current_page' = IF current_page + 1 < Unwrap(rendered).pages
                       THEN current_page + 1 ELSE current_page
    /\ nav_shown' = Activated("next", Unwrap(rendered).next_enabled)
    /\ UNCHANGED <<tray_ports, lock_holder, protocol_filter, page_size, ui_pc, ui_new_ports,
                   ui_current_ports, rendered, bg_pc, bg_new_ports, scanned, host_lists,
                   latest_scan, trace>>
    /\ TrayFrame

\* the callback of the item of a port of the menu built, up to its
\* refresh_ports: kill_port_by_number when the pid of the item is 0, otherwise
\* kill_process(pid)
KillOne ==
    /\ ui_pc = "idle"
    /\ rendered # None
    /\ \E i \in 1..Len(Unwrap(rendered).page_ports) :
          LET port_info == Unwrap(rendered).page_ports[i]
          IN  trace' = IF port_info.pid = 0
                       THEN <<KillPortByNumberEvent(port_info.port, port_info.protocol)>>
                       ELSE <<CallEvent("kill_process", port_info.pid)>>
    /\ ui_pc' = "killed"
    /\ UNCHANGED <<tray_ports, lock_holder, protocol_filter, current_page, page_size,
                   ui_new_ports, ui_current_ports, rendered, bg_pc, bg_new_ports, scanned,
                   host_lists, latest_scan, nav_shown>>
    /\ TrayFrame

\* the callback of the kill all item of the menu built, up to its
\* refresh_ports: kill_all_port_processes scans and calls kill_process for the
\* unique known pids of the list it scanned
KillAll ==
    /\ ui_pc = "idle"
    /\ rendered # None /\ Unwrap(rendered).total > 0
    /\ \E list \in host_lists :
          trace' = <<CallEvent("kill_all_port_processes", 0), ScanEvent(list)>>
                       \o KillCallEvents(IF list = <<>> THEN <<>> ELSE UniquePids(list))
    /\ ui_pc' = "killed"
    /\ UNCHANGED <<tray_ports, lock_holder, protocol_filter, current_page, page_size,
                   ui_new_ports, ui_current_ports, rendered, bg_pc, bg_new_ports, scanned,
                   host_lists, latest_scan, nav_shown>>
    /\ TrayFrame

\* the refresh thread after its sleep: the scan, no lock held
BgScan ==
    /\ bg_pc = "sleep"
    /\ \E new_ports \in host_lists :
          /\ bg_new_ports' = new_ports
          /\ scanned' = scanned \cup {new_ports}
          /\ latest_scan' = new_ports
    /\ bg_pc' = "scanned"
    /\ UNCHANGED <<tray_ports, lock_holder, protocol_filter, current_page, page_size, ui_pc,
                   ui_new_ports, ui_current_ports, rendered, host_lists, nav_shown, trace>>
    /\ TrayFrame

\* the refresh thread: ports_handle.lock()
BgLock ==
    /\ bg_pc = "scanned"
    /\ MutexFree(lock_holder)
    /\ lock_holder' = "bg"
    /\ bg_pc' = "store"
    /\ UNCHANGED <<tray_ports, protocol_filter, current_page, page_size, ui_pc, ui_new_ports,
                   ui_current_ports, rendered, bg_new_ports, scanned, host_lists, latest_scan,
                   nav_shown, trace>>
    /\ TrayFrame

\* the refresh thread: *ports = new_ports, the guard dropped
BgStore ==
    /\ bg_pc = "store"
    /\ tray_ports' = bg_new_ports
    /\ lock_holder' = "none"
    /\ bg_new_ports' = <<>>
    /\ bg_pc' = "update"
    /\ UNCHANGED <<protocol_filter, current_page, page_size, ui_pc, ui_new_ports,
                   ui_current_ports, rendered, scanned, host_lists, latest_scan, nav_shown, trace>>
    /\ TrayFrame

\* the refresh thread: handle.update with a closure that only logs, run when
\* the service thread is in no callback; then the sleep
BgUpdate ==
    /\ bg_pc = "update"
    /\ ui_pc = "idle"
    /\ bg_pc' = "sleep"
    /\ UNCHANGED <<tray_ports, lock_holder, protocol_filter, current_page, page_size, ui_pc,
                   ui_new_ports, ui_current_ports, rendered, bg_new_ports, scanned, host_lists,
                   latest_scan, nav_shown, trace>>
    /\ TrayFrame

\* after PortSlayerTray::new and the spawn of the refresh thread, on a host
\* whose scans return the lists
TrayStarted(lists) ==
    /\ host_lists = lists
    /\ \E first \in lists :
          /\ tray_ports = first
          /\ scanned = {first}
          /\ latest_scan = first
    /\ lock_holder = "none"
    /\ protocol_filter = "All"
    /\ current_page = 0
    /\ page_size = DEFAULT_PAGE_SIZE
    /\ ui_pc = "idle"
    /\ ui_new_ports = <<>>
    /\ ui_current_ports = <<>>
    /\ rendered = None
    /\ nav_shown = None
    /\ bg_pc = "sleep"
    /\ bg_new_ports = <<>>
    /\ sudo_ss = [f \in {"-tlnpH", "-ulnpH"} |-> Outcome(FALSE, FALSE, None, <<>>)]
    /\ ss = [f \in {"-tlnpH", "-ulnpH"} |-> Outcome(FALSE, FALSE, None, <<>>)]
    /\ proc_net = [path \in {"/proc/net/tcp", "/proc/net/tcp6", "/proc/net/udp", "/proc/net/udp6"} |-> None]
    /\ proc_dir = None
    /\ pc = "idle"
    /\ ports_map = <<>>
    /\ ss_records = <<>>
    /\ proc_ports = <<>>
    /\ ports = <<>>
    /\ log = <<>>
    /\ KillIdle
    /\ SsIdle
    /\ PureIdle

InitTray == TrayStarted(Range(ScanResults))

InitTrayPages == TrayStarted(Range(PagedScanResults))

NextTray ==
    \/ UiRefreshScan
    \/ UiRefreshLock
    \/ UiRefreshStore
    \/ MenuLock
    \/ MenuClone
    \/ MenuUnlock
    \/ MenuRender
    \/ \E filter \in Filters : SetFilter(filter)
    \/ \E size \in PageSizes : SetPageSize(size)
    \/ NavPrev
    \/ NavNext
    \/ KillOne
    \/ KillAll
    \/ BgScan
    \/ BgLock
    \/ BgStore
    \/ BgUpdate

SpecTray == InitTray /\ [][NextTray]_vars

SpecTrayPages == InitTrayPages /\ [][NextTray]_vars

\* a thread holds the mutex exactly in the steps between its lock and the end
\* of its store or of its copy
HeldOnlyToStoreOrCopy ==
    /\ lock_holder = "ui" <=> ui_pc \in {"store", "clone"}
    /\ lock_holder = "bg" <=> bg_pc = "store"

\* C13: under every interleaving of the refresh thread and the callbacks, the
\* shared list is replaced as a whole and copied under the mutex: the list a
\* menu is rendered from is the complete result of one scan, the shared list
\* is one too, a thread holds the mutex only between its lock and the end of
\* its store or of its copy, and no scan and no rendering is a step of a
\* thread that holds the mutex.
C13_SnapshotOfOneScan ==
    /\ [](/\ tray_ports \in scanned
          /\ ui_pc = "cloned" => ui_current_ports \in scanned
          /\ rendered # None => Unwrap(rendered).current_ports \in scanned
          /\ HeldOnlyToStoreOrCopy)
    /\ [][/\ UiRefreshScan \/ MenuRender => lock_holder # "ui" /\ lock_holder' # "ui"
          /\ BgScan => lock_holder # "bg" /\ lock_holder' # "bg"
          /\ tray_ports' # tray_ports =>
                \/ lock_holder = "ui" /\ tray_ports' = ui_new_ports
                \/ lock_holder = "bg" /\ tray_ports' = bg_new_ports]_vars

\* C13 witness: the refresh thread has scanned another list and waits for the
\* mutex while the menu is in the middle of its copy.
C13_Witness ==
    /\ ui_pc = "clone"
    /\ 0 < Len(ui_current_ports) /\ Len(ui_current_ports) < Len(tray_ports)
    /\ bg_pc = "scanned"
    /\ bg_new_ports # tray_ports
    /\ lock_holder = "ui"

\* the positions of the records of the list that the filter keeps
Kept(list, filter) ==
    {i \in 1..Len(list) :
        \/ filter = "All"
        \/ filter = "Tcp" /\ list[i].protocol = "tcp"
        \/ filter = "Udp" /\ list[i].protocol = "udp"}

\* C20: the filtered list of a menu is exactly the records of the copied list
\* whose protocol the filter names (all of them for All), in their order; and
\* no filter change, page size change or page navigation modifies the shared
\* port list.
C20_ViewsArePure ==
    /\ [](rendered # None =>
            LET menu == Unwrap(rendered)
                kept == Kept(menu.current_ports, menu.protocol_filter)
            IN  /\ Len(menu.filtered_ports) = Cardinality(kept)
                /\ \A i \in kept :
                      menu.filtered_ports[Cardinality({j \in kept : j <= i})]
                          = menu.current_ports[i])
    /\ [][(\/ \E filter \in Filters : SetFilter(filter)
           \/ \E size \in PageSizes : SetPageSize(size)
           \/ NavPrev
           \/ NavNext) => tray_ports' = tray_ports]_vars

\* C20 witness: a menu filtered to Udp shows the two udp records of the six
\* copied, and the filter has since been changed while the shared list is
\* still the same.
C20_Witness ==
    /\ rendered # None
    /\ Unwrap(rendered).protocol_filter = "Udp"
    /\ Unwrap(rendered).current_ports = ScanResults[2]
    /\ Len(Unwrap(rendered).filtered_ports) = 2
    /\ protocol_filter = "Tcp"
    /\ tray_ports = ScanResults[2]

\* ------------------------------------------------------------------------
\* Claims on the insertion of the ss records (specification Spec)
\* ------------------------------------------------------------------------

\* the positions of the ss records that have the key
SsPositions(key) == {i \in 1..Len(ss_records) : Key(ss_records[i]) = key}

\* among the ss records of the key: the first with a known owner if there is
\* one, otherwise the first
SsSurvivor(key) ==
    LET known == {i \in SsPositions(key) : ss_records[i].pid > 0}
        from == IF known # {} THEN known ELSE SsPositions(key)
    IN  ss_records[CHOOSE i \in from : \A j \in from : i <= j]

\* the map after the first n ss records
MapAfter(n) == FoldSs(<<>>, SubSeq(ss_records, 1, n))

\* C21: while the ss records are inserted, the record of a key already present
\* is replaced by the new one if and only if the new one has a known owner
\* (pid > 0) and the present one has pid 0; so once phase 1 is over the map
\* holds, for every key of the ss records, the first record with a known
\* owner if there is one and otherwise the first record, and the later phases
\* leave it there.
C21_ReplacedOnlyByKnownOwner ==
    pc \in {"proc", "sort", "done"} =>
        /\ \A n \in 1..Len(ss_records) :
              LET new == ss_records[n]
                  key == Key(new)
              IN  IF key \notin DOMAIN MapAfter(n - 1) THEN MapAfter(n)[key] = new
                  ELSE LET existing == MapAfter(n - 1)[key]
                       IN  IF new.pid > 0 /\ existing.pid = 0
                           THEN MapAfter(n)[key] = new
                           ELSE MapAfter(n)[key] = existing
        /\ \A i \in 1..Len(ss_records) :
              /\ Key(ss_records[i]) \in DOMAIN ports_map
              /\ ports_map[Key(ss_records[i])] = SsSurvivor(Key(ss_records[i]))

\* C21 witness: ss gave a record without owner and then one of the same key
\* with a known owner, and the map holds the second.
C21_Witness ==
    /\ pc = "proc"
    /\ Len(ss_records) = 2
    /\ Key(ss_records[1]) = Key(ss_records[2])
    /\ ss_records[1].pid = 0
    /\ ss_records[2].pid > 0
    /\ ports_map[Key(ss_records[1])] = ss_records[2]

\* ------------------------------------------------------------------------
\* Claims on the outcome of the batch (specification SpecBatch)
\* ------------------------------------------------------------------------

\* what `ss -tlnpH` prints on the hosts of the batch: nothing, a port without
\* owner, two owned ports, two owned ports and one without owner
BatchSsTcpOutputs ==
    {<<>>,
     <<KillSsTcpLines[3]>>,
     <<KillSsTcpLines[1], KillSsTcpLines[2]>>,
     <<KillSsTcpLines[3], KillSsTcpLines[2], KillSsTcpLines[1]>>}

\* hosts as those of InitKill, with the outputs of ss taken from the cases above
InitBatch ==
    /\ \E tcp \in BatchSsTcpOutputs, udp \in {<<>>, <<KillSsUdpLines[1]>>} :
          sudo_ss = [f \in {"-tlnpH", "-ulnpH"} |->
                        Outcome(TRUE, TRUE, Some(Unlines(IF f = "-tlnpH" THEN tcp ELSE udp)), <<>>)]
    /\ ss = [f \in {"-tlnpH", "-ulnpH"} |-> Outcome(FALSE, FALSE, None, <<>>)]
    /\ proc_net = [path \in {"/proc/net/tcp", "/proc/net/tcp6", "/proc/net/udp", "/proc/net/udp6"} |->
                       IF path = "/proc/net/udp6" THEN None ELSE ProcFile(<<>>)]
    /\ proc_dir = Some(<<ProcNginx, ProcNode>>)
    /\ pc = "idle"
    /\ ports_map = <<>>
    /\ ss_records = <<>>
    /\ proc_ports = <<>>
    /\ ports = <<>>
    /\ log = <<>>
    /\ KillIdle
    /\ SsIdle
    /\ TrayIdle
    /\ PureIdle

SpecBatch == InitBatch /\ [][NextKill]_vars

\* C22: kill_all_port_processes returns Ok(0) and terminates nothing when the
\* scan is empty; an error, terminating nothing, when ports exist and none has
\* a known pid; otherwise Ok(k), k the number of pids whose kill_process
\* succeeded, whenever k > 0, and an error made of all the failure messages
\* joined only when every termination failed.
C22_BatchOutcomeClasses ==
    BatchReturned =>
        LET result == trace[Len(trace)].result
        IN  IF scan_open_ports = <<>>
            THEN result = Ok(0) /\ KillCalls = <<>>
            ELSE IF ScannedPids = {}
            THEN result[1] = "Err" /\ result[2] = MsgNoKnownPid /\ KillCalls = <<>>
            ELSE /\ Len(KillCalls) = Cardinality(ScannedPids)
                 /\ Len(KillReturns) = Len(KillCalls)
                 /\ Successes > 0 => result = Ok(Successes)
                 /\ result[1] = "Err" <=> Successes = 0
                 /\ Successes = 0 =>
                       /\ Len(FailureMessages) = Len(KillCalls)
                       /\ result[2] = Join(FailureMessages, <<";", " ">>)

\* C22 witness: a batch of two terminations has returned after both failed.
C22_Witness ==
    /\ BatchReturned
    /\ Len(KillCalls) = 2
    /\ Successes = 0
    /\ trace[Len(trace)].result[1] = "Err"

\* ------------------------------------------------------------------------
\* C23: the callbacks of the kill items and pid 0
\* ------------------------------------------------------------------------

\* the event is a call of kill_process
IsKillProcessCall(event) == event.ev = "call" /\ event.fn = "kill_process"

\* the ports of the menu built that show no owner
OwnerlessItems ==
    IF rendered = None THEN {}
    ELSE {<<item.port, item.protocol>> : item \in
             {item \in Range(Unwrap(rendered).page_ports) : item.pid = 0}}

C23_OwnerlessItemActivated == trace # <<>> /\ trace[1].fn = "kill_port_by_number"

\* ------------------------------------------------------------------------
\* C24: the stored page after a change of what is listed
\* ------------------------------------------------------------------------

\* C24: every action of the tray that changes what is listed leaves the
\* stored page at 0: the selection of a filter, the selection of a page size,
\* and the end of refresh_ports, be it the manual refresh or the refresh that
\* ends the callback of a port item or of the kill all item. Such a callback
\* goes on only with its refresh, and is over only when the page is 0.
C24_PageResetOnListChange ==
    /\ [][(\E filter \in Filters : SetFilter(filter)) => current_page' = 0]_vars
    /\ [][(\E size \in PageSizes : SetPageSize(size)) => current_page' = 0]_vars
    /\ [][(ui_pc = "store" /\ ui_pc' = "idle") => current_page' = 0]_vars
    /\ [][(KillOne \/ KillAll) => (ui_pc' = "killed" /\ trace' # <<>>)]_vars
    /\ [][(ui_pc = "killed" /\ ui_pc' # "killed") => (ui_pc' = "scanned" /\ trace' = trace)]_vars
    /\ [][(trace # <<>> /\ trace' = <<>>) => (ui_pc' = "idle" /\ current_page' = 0)]_vars
    /\ [](ui_pc = "idle" => trace = <<>>)

\* the menu built showed the second page of the unfiltered list, a filter was
\* selected since, and the stored page is 0
C24_Witness ==
    /\ rendered # None
    /\ Unwrap(rendered).safe_page > 0
    /\ Unwrap(rendered).protocol_filter = "All"
    /\ protocol_filter = "Tcp"
    /\ ui_pc = "idle"
    /\ current_page = 0

\* the refresh of the callback of the kill all item is about to store its
\* list while the stored page is the second
C24_KillRefreshStores ==
    /\ ui_pc = "store"
    /\ trace # <<>> /\ trace[1].fn = "kill_all_port_processes"
    /\ current_page > 0

\* ------------------------------------------------------------------------
\* C25: the page the menu shows
\* ------------------------------------------------------------------------

\* the number of pages of n items at the page size, at least one
PagesOf(n, size) == IF n = 0 THEN 1 ELSE (n + size - 1) \div size

\* the items of the list on the page of that index
ItemsOfPage(list, index, size) ==
    [k \in 1..Min(size, Len(list) - index * size) |-> list[index * size + k]]

\* C25: in every state, for the menu built last, also when a background
\* refresh has shortened the list and the stored page was left as it was:
\* the index of the page rendered is less than the number of pages of the
\* filtered list at the page size; the previous item is enabled exactly when
\* that index is above 0 and the next item exactly when the index plus one is
\* below the number of pages; and the port items are the filtered records of
\* that page, in order.
C25_RenderedPageInRange ==
    rendered # None =>
        LET menu == Unwrap(rendered)
            pages == PagesOf(Len(menu.filtered_ports), menu.page_size)
        IN  /\ menu.safe_page < pages
            /\ menu.prev_enabled <=> menu.safe_page > 0
            /\ menu.next_enabled <=> menu.safe_page + 1 < pages
            /\ menu.page_ports =
                  ItemsOfPage(menu.filtered_ports, menu.safe_page, menu.page_size)

\* a menu was built on its second page while the stored page is beyond it:
\* the list was shortened after the stored page was reached
C25_Witness ==
    /\ rendered # None
    /\ ui_pc = "idle"
    /\ nav_shown = None
    /\ Unwrap(rendered).page_size = page_size
    /\ Unwrap(rendered).safe_page > 0
    /\ current_page > Unwrap(rendered).safe_page
    /\ Unwrap(rendered).prev_enabled
    /\ ~Unwrap(rendered).next_enabled

\* ------------------------------------------------------------------------
\* C26: a navigation item and the page of the next menu
\* ------------------------------------------------------------------------

\* menu() ends building a menu while the item (previous or next) of the menu
\* before is the one activated since, it was shown enabled, and the menu is
\* built from the same list with the same filter and page size
RebuiltAfter(item) ==
    /\ ui_pc = "cloned" /\ ui_pc' = "idle"
    /\ rendered # None
    /\ nav_shown = Some(item)
    /\ Unwrap(rendered').current_ports = Unwrap(rendered).current_ports
    /\ Unwrap(rendered').protocol_filter = Unwrap(rendered).protocol_filter
    /\ Unwrap(rendered').page_size = Unwrap(rendered).page_size

\* the next item: the menu built after its activation is one page further
C26_NextMovesOnePage ==
    [][RebuiltAfter("next") =>
          Unwrap(rendered').safe_page = Unwrap(rendered).safe_page + 1]_vars

\* a menu was rebuilt after an enabled next item was activated
C26_NextWitness ==
    /\ rendered # None /\ ui_pc = "idle" /\ nav_shown = None
    /\ Unwrap(rendered).safe_page = 2
    /\ current_page = 2

\* C26: after an enabled previous item is activated, the page index of the
\* next menu built is one less than the index rendered when the item was
\* shown, and after an enabled next item one more, also when a background
\* refresh changed the length of the list so that the stored page is not the
\* clamped index that was rendered. (Stated for the menus built from the same
\* list, filter and page size as the one that showed the item.)
C26_NavigationMovesOnePage ==
    [][/\ RebuiltAfter("prev") =>
             Unwrap(rendered').safe_page = Unwrap(rendered).safe_page - 1
       /\ RebuiltAfter("next") =>
             Unwrap(rendered').safe_page = Unwrap(rendered).safe_page + 1]_vars

\* ------------------------------------------------------------------------
\* C27: the order of the scans and the shared list
\* ------------------------------------------------------------------------

\* neither thread has a scan that it has not stored yet
AllScansPublished ==
    /\ ui_pc \notin {"scanned", "store"}
    /\ bg_pc \notin {"scanned", "store"}

\* C27: an older scan never overwrites a newer one. Whatever the
\* interleaving of the periodic scan of the refresh thread with a refresh of
\* the service thread (the refresh item, or the refresh after a kill), once
\* both have stored their lists the shared list is the result of the scan
\* that started last.
C27_NewestScanKept == AllScansPublished => tray_ports = latest_scan

\* ------------------------------------------------------------------------
\* C28: the kill all item and the ports its label counts
\* ------------------------------------------------------------------------

\* the kill all item of the menu built last was activated, as the first
\* callback since, and kill_all_port_processes scanned the list the menu was
\* built from
KillAllOfMenuShown ==
    /\ trace # <<>>
    /\ trace[1].fn = "kill_all_port_processes"
    /\ nav_shown = None
    /\ rendered # None
    /\ trace[2].result = Unwrap(rendered).current_ports

\* C28: the kill all item targets only processes that own a port counted in
\* its label: every pid its callback passes to kill_process owns a port of
\* the list the menu was built from that matches the active filter.
C28_KillAllWithinLabel ==
    KillAllOfMenuShown =>
        \A i \in 3..Len(trace) :
            \E item \in Range(Unwrap(rendered).filtered_ports) : item.pid = trace[i].pid

====
